---------------------------- MODULE Spec2Model ----------------------------
(***************************************************************************)
(* OpenArc: the archive-creation orchestrator (openarc-core/orchestrator)  *)
(* and the incremental backup catalog (openarc-core/backup_catalog).       *)
(*                                                                         *)
(* Paths and file names are sequences of one-character strings, so that    *)
(* file_name / file_stem / extension / format!() are computed as the code  *)
(* computes them.                                                          *)
(***************************************************************************)
EXTENDS Integers, Sequences, FiniteSets, TLC

VARIABLES
    \* ---- persistent state: the host, the file system, the catalog DB ----
    windows,        \* cfg(target_os = "windows") of the build
    disk,           \* file-system key -> metadata of the file, or NoFile
    now,            \* the host clock, whole seconds (now_secs)
    table,          \* rows of backed_up_files (the id column, which no query
                    \* of the program reads, is left out)
    lastCall,       \* the most recent catalog API call / event and its result
    archives,       \* rows of the registry table archives
    archive_files,  \* rows of the registry table archive_files
    output,         \* the file at output_archive: its members and the call that wrote it
    \* ---- one create_archive call ----
    settings,       \* OrchestratorSettings
    input_paths,    \* the input_paths argument
    runNo,          \* 1 for the first call, 2 for the call repeated after it
    mainPc,         \* where the calling thread is
    run,            \* locals of create_archive: discovered, skipped_by_catalog,
                    \* to_process, dedup_canon, duplicates_of, work
    wk,             \* per work item: where its closure is, whether it holds a
                    \* HeavyGuard, the sequence number it drew
    poolFull,       \* try_for_each has seen an Err: no further item is started
    heavyCount,     \* HeavyLimiter.count: the permits left
    staging,        \* files of the staging directory: [path, by]
    stagingExists,  \* the TempDir exists
    processed,      \* processed_mutex: Vec<ProcessedFile>
    completed_count,\* the AtomicUsize
    queue,          \* the flume channel: WorkDone events sent, not yet received
    cbLog,          \* the calls of the progress callback, in invocation order
    warnings,       \* warnings printed after the seal
    result,         \* what create_archive returned
    \* ---- the libraries below the orchestrator, exercised on their own ----
    vint,           \* one encode_varint / decode_varint round trip
    arc,            \* one archive written by FreeArcWriter and read back
    probe,          \* per video worker: its call of safe_analyze_video
    video,          \* one video classified by analyze_video_compression
    img,            \* the image arm of one work item
    gate,           \* the memory gates in front of one work item
    cblock,         \* one control block of a file, damaged and read back
    extr,           \* the images of one unpacked archive, decoded on extraction
    hfile           \* one HASHES.sha256 file, written and read back

catVars == <<windows, disk, now, table, lastCall>>

regVars == <<archives, archive_files>>

runVars == <<settings, input_paths, runNo, mainPc, run, wk, poolFull, heavyCount,
             staging, stagingExists, processed, completed_count, queue, cbLog,
             warnings, result, output>>

vars == <<windows, disk, now, table, lastCall, archives, archive_files, output,
          settings, input_paths, runNo, mainPc, run, wk, poolFull, heavyCount,
          staging, stagingExists, processed, completed_count, queue, cbLog,
          warnings, result, vint, arc, probe, video, img, gate, cblock, extr, hfile>>

libVars == <<vint, arc, probe, video, img, gate, cblock, extr, hfile>>

-----------------------------------------------------------------------------
(* Bounds of the model *)

MaxClock == 1        \* the clock runs 0 .. MaxClock
MaxBatch == 2        \* entries per record_backups call
MaxFiles == 2        \* paths in input_paths
MaxHeavy == 3        \* videos given at once to contend for the heavy permits

-----------------------------------------------------------------------------
(* Generic helpers *)

None == "None"

Min(a, b) == IF a <= b THEN a ELSE b

Range(s) == {s[i] : i \in 1..Len(s)}

\* index of the last occurrence of ch in s, 0 when absent
LastIndexOf(s, ch) ==
    LET hits == {i \in 1..Len(s) : s[i] = ch}
    IN IF hits = {} THEN 0 ELSE CHOOSE i \in hits : \A j \in hits : j <= i

\* all sequences over S of length lo..hi
SeqsOf(S, lo, hi) == UNION {[1..n -> S] : n \in lo..hi}

-----------------------------------------------------------------------------
(* Characters and paths *)

\* char::to_lowercase on the letters the model's paths use
ToLowerChar(c) ==
    CASE c = "D" -> "d"
      [] c = "A" -> "a"
      [] OTHER -> c

\* str::to_lowercase
ToLowercase(s) == [i \in 1..Len(s) |-> ToLowerChar(s[i])]

\* str::replace('\\', "/")
ReplaceBackslash(s) == [i \in 1..Len(s) |-> IF s[i] = "\\" THEN "/" ELSE s[i]]

\* normalize_path: identity, except on a Windows build
normalize_path(w, path) ==
    IF w THEN ToLowercase(ReplaceBackslash(path)) ELSE path

\* The file a path names: the Windows file system is case-insensitive and
\* takes both separators, elsewhere the path is the key.
FsKey(w, path) == IF w THEN ToLowercase(ReplaceBackslash(path)) ELSE path

-----------------------------------------------------------------------------
(* The files of the model's world *)

P_d1_a_jpg == <<"d","1","/","a",".","j","p","g">>
P_D1_a_jpg == <<"D","1","\\","a",".","j","p","g">>
P_d2_a_jpg == <<"d","2","/","a",".","j","p","g">>
P_d1_v_mov == <<"d","1","/","v",".","m","o","v">>
P_d1_n_txt == <<"d","1","/","n",".","t","x","t">>
P_d2_n_txt == <<"d","2","/","n",".","t","x","t">>

\* the paths the catalog API is driven with
CatPaths == {P_d1_a_jpg, P_D1_a_jpg}

\* the files create_archive is given
Universe == {P_d1_a_jpg, P_d2_a_jpg, P_d1_v_mov, P_d1_n_txt, P_d2_n_txt}

\* the bytes of a file, named: d1/n.txt and d2/n.txt are byte-identical
FileContent(key) ==
    CASE key = P_d1_a_jpg -> "c1"
      [] key = P_d2_a_jpg -> "c2"
      [] key = P_d1_v_mov -> "c3"
      [] key = P_d1_n_txt -> "c4"
      [] key = P_d2_n_txt -> "c4"
      [] OTHER -> "c0"

\* the length of a file: d2/a.jpg and d1/v.mov are larger than 50 MB
FileSize(key) ==
    IF key \in {P_d2_a_jpg, P_d1_v_mov} THEN 60000000 ELSE 1

NoFile == [exists |-> FALSE]

\* fs::Metadata: len() in bytes and modified() in clock ticks since the epoch
TicksPerSec == 2

Sizes == {1, 2}

Mtimes == 0 .. TicksPerSec

FileMeta == [exists : {TRUE}, size : Sizes, mtime : Mtimes]

\* fs::metadata(path): Ok(metadata) or Err
Metadata(w, d, path) == d[FsKey(w, path)]

\* get_mtime_secs: duration_since(UNIX_EPOCH).as_secs()
get_mtime_secs(meta) == meta.mtime \div TicksPerSec

-----------------------------------------------------------------------------
(* BackupCatalog *)

\* `x as i64` and `x as u64`: two's complement reinterpretation of 64 bits.
\* Sizes and seconds stay in [0, 2^63), where neither cast changes the value
\* (2^63 itself is beyond the checker's integers).
AsI64(x) == x

AsU64(x) == x

\* A BackupEntry handed to record_backup; backed_up_at is overwritten by now
BackupEntries(w) ==
    [path : {normalize_path(w, p) : p \in CatPaths},
     size : Sizes,
     mtime_secs : {get_mtime_secs(m) : m \in FileMeta},
     sha256 : {None},
     archive_id : {None}]

\* INSERT OR REPLACE INTO backed_up_files: the row in conflict on the UNIQUE
\* path is deleted and the new row inserted.
NewRow(clock, entry) ==
    [path |-> entry.path,
     size |-> AsI64(entry.size),
     mtime_secs |-> AsI64(entry.mtime_secs),
     sha256 |-> entry.sha256,
     backed_up_at |-> AsI64(clock),
     archive_id |-> entry.archive_id]

InsertOnly(t, clock, entry) == t \cup {NewRow(clock, entry)}

InsertOrReplace(t, clock, entry) ==
    {r \in t : r.path # entry.path} \cup {NewRow(clock, entry)}

\* record_backup: one statement; a database error leaves the table as it was
record_backup(t, clock, entry, dbOk) ==
    IF dbOk
    THEN [ok |-> TRUE, table |-> InsertOrReplace(t, clock, entry)]
    ELSE [ok |-> FALSE, table |-> t]

\* the loop of record_backups inside its transaction
RECURSIVE InsertAll(_, _, _)
InsertAll(t, clock, entries) ==
    IF entries = <<>>
    THEN t
    ELSE InsertAll(InsertOrReplace(t, clock, Head(entries)), clock, Tail(entries))

\* record_backups: one transaction; any error (a statement, the commit)
\* drops the transaction, which rolls it back
record_backups(t, clock, entries, dbOk) ==
    IF dbOk
    THEN [ok |-> TRUE, table |-> InsertAll(t, clock, entries)]
    ELSE [ok |-> FALSE, table |-> t]

\* should_skip_file: Err | Ok(None) | Ok(Some(true)) | Ok(Some(false))
should_skip_file_NoSize(w, t, d, path, dbOk) ==
    LET path_str == normalize_path(w, path)
        metadata == Metadata(w, d, path)
        rows     == {r \in t : r.path = path_str}
    IN  IF ~metadata.exists \/ ~dbOk THEN "Err"
        ELSE IF rows = {} THEN "None"
        ELSE LET r == CHOOSE r \in rows : TRUE
             IN IF AsU64(r.mtime_secs) = get_mtime_secs(metadata)
                THEN "Some(true)" ELSE "Some(false)"

should_skip_file(w, t, d, path, dbOk) ==
    LET path_str == normalize_path(w, path)
        metadata == Metadata(w, d, path)
        rows     == {r \in t : r.path = path_str}
    IN  IF ~metadata.exists \/ ~dbOk THEN "Err"
        ELSE IF rows = {} THEN "None"
        ELSE LET r == CHOOSE r \in rows : TRUE
             IN IF AsU64(r.size) = metadata.size
                   /\ AsU64(r.mtime_secs) = get_mtime_secs(metadata)
                THEN "Some(true)" ELSE "Some(false)"

\* filter_files_to_backup: (skip, backup), each in the order of file_paths;
\* dbOk[i] tells whether the i-th query succeeds
RECURSIVE FilterFrom(_, _, _, _, _, _, _)
FilterFrom(w, t, d, file_paths, dbOk, skip, backup) ==
    IF file_paths = <<>>
    THEN [skip |-> skip, backup |-> backup]
    ELSE LET path == Head(file_paths)
             r == should_skip_file(w, t, d, path, Head(dbOk))
         IN IF r \in {"Some(true)", "Err"}
            THEN FilterFrom(w, t, d, Tail(file_paths), Tail(dbOk),
                            Append(skip, path), backup)
            ELSE FilterFrom(w, t, d, Tail(file_paths), Tail(dbOk),
                            skip, Append(backup, path))

filter_files_to_backup(w, t, d, file_paths, dbOk) ==
    FilterFrom(w, t, d, file_paths, dbOk, <<>>, <<>>)

\* a row as list_all returns it
RowToEntry(r) ==
    [path |-> r.path, size |-> AsU64(r.size), mtime_secs |-> AsU64(r.mtime_secs),
     sha256 |-> r.sha256, backed_up_at |-> AsU64(r.backed_up_at),
     archive_id |-> r.archive_id]

\* list_all: every row once, ORDER BY backed_up_at DESC (ties in any order)
ListAllResults(t) ==
    {s \in [1..Cardinality(t) -> t] :
        /\ \A i, j \in 1..Cardinality(t) : i # j => s[i] # s[j]
        /\ \A i, j \in 1..Cardinality(t) : i < j => s[i].backed_up_at >= s[j].backed_up_at}

-----------------------------------------------------------------------------
(* Path::file_name, file_stem, extension *)

Separators(w) == IF w THEN {"/", "\\"} ELSE {"/"}

LastSepIndex(w, path) ==
    LET hits == {i \in 1..Len(path) : path[i] \in Separators(w)}
    IN IF hits = {} THEN 0 ELSE CHOOSE i \in hits : \A j \in hits : j <= i

\* Path::file_name (no path of the model ends in a separator or in "..")
file_name(w, path) == SubSeq(path, LastSepIndex(w, path) + 1, Len(path))

\* Path::file_stem: the name up to its last dot; the whole name when it has
\* no dot or only a leading one
file_stem(w, path) ==
    LET name == file_name(w, path)
        i == LastIndexOf(name, ".")
    IN IF i <= 1 THEN name ELSE SubSeq(name, 1, i - 1)

\* Path::extension: what follows the last dot, None when file_stem is the name
extension(w, path) ==
    LET name == file_name(w, path)
        i == LastIndexOf(name, ".")
    IN IF i <= 1 THEN None ELSE SubSeq(name, i + 1, Len(name))

\* safe_file_name
safe_file_name(w, path) ==
    IF file_name(w, path) = <<>> THEN <<"f","i","l","e">> ELSE file_name(w, path)

Digits == <<"0", "1", "2", "3", "4", "5", "6", "7", "8", "9">>

\* format!("{}", n) of an unsigned integer
RECURSIVE ToDecimal(_)
ToDecimal(n) ==
    IF n < 10 THEN <<Digits[n + 1]>>
    ELSE ToDecimal(n \div 10) \o <<Digits[(n % 10) + 1]>>

-----------------------------------------------------------------------------
(* classify_file *)

JpegExts == {<<"j","p","g">>, <<"j","p","e","g">>}
PngExts == {<<"p","n","g">>}
HeicExts == {<<"h","e","i","c">>, <<"h","e","i","f">>, <<"h","i","f">>}
RawExts == {<<"c","r","2">>, <<"c","r","3">>, <<"n","e","f">>, <<"a","r","w">>, <<"d","n","g">>, <<"o","r","f">>, <<"r","w","2">>, <<"r","a","f">>, <<"p","e","f">>, <<"s","r","w">>}
TiffExts == {<<"t","i","f","f">>, <<"t","i","f">>}
BmpExts == {<<"b","m","p">>}
WebPExts == {<<"w","e","b","p">>}
VideoExts == {<<"m","p","4">>, <<"m","o","v">>, <<"a","v","i">>, <<"m","k","v">>, <<"w","e","b","m">>, <<"m","4","v">>, <<"3","g","p">>, <<"f","l","v">>, <<"w","m","v">>, <<"m","t","s">>, <<"m","2","t","s">>}

classify_file(w, path) ==
    LET e == extension(w, path)
        ext == IF e = None THEN <<>> ELSE ToLowercase(e)
    IN CASE ext \in JpegExts -> [class |-> "Image", original_format |-> "Jpeg"]
         [] ext \in PngExts -> [class |-> "Image", original_format |-> "Png"]
         [] ext \in HeicExts -> [class |-> "Image", original_format |-> "Heic"]
         [] ext \in RawExts -> [class |-> "Image", original_format |-> "Raw"]
         [] ext \in TiffExts -> [class |-> "Image", original_format |-> "Tiff"]
         [] ext \in BmpExts -> [class |-> "Image", original_format |-> "Bmp"]
         [] ext \in WebPExts -> [class |-> "Image", original_format |-> "WebP"]
         [] ext \in VideoExts -> [class |-> "Video", original_format |-> None]
         [] OTHER -> [class |-> "Misc", original_format |-> None]

-----------------------------------------------------------------------------
(* create_archive: discovery, catalog filter, dedup, work list *)

\* collect_files, for inputs that name files: the existing ones, in order,
\* a path given twice kept twice
collect_files(w, d, paths) == SelectSeq(paths, LAMBDA p : Metadata(w, d, p).exists)

\* hash::sha256_file_hex: the digest stands for the bytes it was taken of
sha256_file_hex(w, path) == FileContent(FsKey(w, path))

\* the dedup loop over to_process: dedup_canon maps a hash to the first path
\* that has it, duplicates_of maps a later path to that first path
RECURSIVE DedupFrom(_, _, _, _)
DedupFrom(w, to_process, dedup_canon, duplicates_of) ==
    IF to_process = <<>>
    THEN [dedup_canon |-> dedup_canon, duplicates_of |-> duplicates_of]
    ELSE LET p == Head(to_process)
             h == sha256_file_hex(w, p)
         IN IF h \in DOMAIN dedup_canon
            THEN DedupFrom(w, Tail(to_process), dedup_canon,
                           [q \in DOMAIN duplicates_of \cup {p} |->
                               IF q = p THEN dedup_canon[h] ELSE duplicates_of[q]])
            ELSE DedupFrom(w, Tail(to_process),
                           [g \in DOMAIN dedup_canon \cup {h} |->
                               IF g = h THEN p ELSE dedup_canon[g]],
                           duplicates_of)

EmptyMap == [x \in {} |-> None]

\* the condition under which the work loop leaves discovered[i] out
WorkLoopSkips(enable_dedup, skipped_by_catalog, duplicates_of, p) ==
    \/ p \in Range(skipped_by_catalog)
    \/ /\ enable_dedup
       /\ p \in DOMAIN duplicates_of
       /\ duplicates_of[p] # p

\* the work loop: idx is the position in discovered, from 0
RECURSIVE WorkFrom(_, _, _, _, _, _)
WorkFrom(w, discovered, i, enable_dedup, skipped_by_catalog, duplicates_of) ==
    IF i > Len(discovered) THEN <<>>
    ELSE LET p == discovered[i]
             c == classify_file(w, p)
             rest == WorkFrom(w, discovered, i + 1, enable_dedup,
                              skipped_by_catalog, duplicates_of)
         IN IF WorkLoopSkips(enable_dedup, skipped_by_catalog, duplicates_of, p)
            THEN rest
            ELSE <<[idx |-> i - 1, input |-> p, class |-> c.class,
                    original_format |-> c.original_format]>> \o rest

-----------------------------------------------------------------------------
(* The staging paths a work item writes *)

S_media == <<"m","e","d","i","a","/">>
S_misc == <<"m","i","s","c","/">>

\* media_dir.join(format!("{}_{}.bpg", stem, item.idx))
ImageOut(w, item) ==
    S_media \o file_stem(w, item.input) \o <<"_">> \o ToDecimal(item.idx) \o <<".","b","p","g">>

\* media_dir.join(format!("{}_{}.{}", stem, item.idx, original_ext))
CopyThroughOut(w, item) ==
    LET e == extension(w, item.input)
        original_ext == IF e = None THEN <<"u","n","k","n","o","w","n">> ELSE ToLowercase(e)
    IN S_media \o file_stem(w, item.input) \o <<"_">> \o ToDecimal(item.idx)
           \o <<".">> \o original_ext

\* media_dir.join(input.file_name().unwrap())
VideoCopyOut(w, item) == S_media \o file_name(w, item.input)

\* media_dir.join(format!("{}.mp4", stem))
VideoTranscodeOut(w, item) == S_media \o file_stem(w, item.input) \o <<".","m","p","4">>

\* misc_dir.join(input.file_name().unwrap())
MiscOut(w, item) == S_misc \o file_name(w, item.input)

-----------------------------------------------------------------------------
(* create_archive: the state of one call *)

\* HeavyLimiter::new(2)
HeavyCapacity == 2

\* original_size > 50_000_000
HeavyImageBytes == 50000000

\* no archive at the output path yet
NoOutput == [members |-> {}, run |-> 0]

NoRun ==
    [discovered |-> <<>>, skipped_by_catalog |-> <<>>, to_process |-> <<>>,
     dedup_canon |-> EmptyMap, duplicates_of |-> EmptyMap, work |-> <<>>]

NoResult ==
    [kind |-> "none", at |-> None, discovered_files |-> <<>>, processed |-> <<>>,
     skipped_by_catalog |-> <<>>, dedup_groups |-> 0]

ErrResult(at) == [NoResult EXCEPT !.kind = "Err", !.at = at]

PanicResult == [NoResult EXCEPT !.kind = "Panic", !.at = "worker"]

SettingsSet ==
    [enable_catalog : BOOLEAN, enable_dedup : BOOLEAN,
     skip_already_compressed_videos : {TRUE}]

\* output_archive.file_name(): the archive is out.tar.zst
ArchiveId == <<"o","u","t",".","t","a","r",".","z","s","t">>

S_metadata_json == <<"O","P","E","N","A","R","C","_","M","E","T","A","D","A","T","A",".","j","s","o","n">>
S_misc_arc == <<"m","i","s","c",".","a","r","c">>
S_manifest == <<"M","A","N","I","F","E","S","T",".","t","x","t">>
S_hashes == <<"H","A","S","H","E","S",".","s","h","a","2","5","6">>

StagingPaths == {f.path : f \in staging}

\* the positions of the work items
Items == 1..Len(run.work)

Waiters == {i \in Items : wk[i].pc = "waiting"}

\* an item gated by the heavy limiter before its image is loaded
IsHeavyImage(item) ==
    /\ item.class = "Image"
    /\ Metadata(windows, disk, item.input).size > HeavyImageBytes

\* HeavyLimiter::acquire: `while *guard == 0 { wait }`, then `*guard -= 1`
AcquireAdmits_NoWait(count) == TRUE

AcquireAdmits(count) == count # 0

\* a drop that notifies but gives no permit back
GuardDrop_KeepsPermit(count) == count

\* HeavyGuard::drop: `*guard = (*guard + 1).min(capacity)`
GuardDrop(count) == Min(count + 1, HeavyCapacity)

\* the staging path an arm writes, by how the arm ends
ArtefactPath(item, outcome) ==
    CASE item.class = "Image" /\ outcome = "encoded" -> ImageOut(windows, item)
      [] item.class = "Image" /\ outcome = "copy_through" -> CopyThroughOut(windows, item)
      [] item.class = "Video" /\ outcome = "copied" -> VideoCopyOut(windows, item)
      [] item.class = "Video" /\ outcome = "encoded" -> VideoTranscodeOut(windows, item)
      [] OTHER -> MiscOut(windows, item)

\* the ProcessedFile an arm pushes
ProcessedFileOf(item, outcome) ==
    [original_path |-> item.input,
     class |-> item.class,
     archived_rel_path |-> ArtefactPath(item, outcome),
     original_size |-> Metadata(windows, disk, item.input).size,
     sha256 |-> <<outcome, sha256_file_hex(windows, item.input)>>,
     skipped_processing |->
         \/ item.class = "Image" /\ outcome = "copy_through"
         \/ item.class = "Video" /\ outcome = "copied",
     original_format |->
         IF item.class = "Image"
         THEN (IF item.original_format = None THEN "Png" ELSE item.original_format)
         ELSE None]

\* how the arm of an item can end once it runs: an artefact, an Err through
\* `?` (the codec's or the file system's), or a panic inside a codec call
ArmOutcomes(item, transcode) ==
    CASE item.class = "Image" -> {"encoded", "copy_through", "encode_err", "panic"}
      [] item.class = "Video" /\ transcode -> {"encoded", "encode_err", "panic"}
      [] OTHER -> {"copied", "io_err"}

Terminal == {"done", "encode_err", "io_err", "panicked"}

\* try_for_each has returned: every item ran to its end, or never started
\* because an Err had already filled the consumer
WorkersJoined_NoWait(w, full) == TRUE

WorkersJoined(w, full) ==
    \A i \in DOMAIN w : w[i].pc \in Terminal \/ (w[i].pc = "todo" /\ full)

-----------------------------------------------------------------------------
(* arcmax core/varint: FreeARC packed integers.  A u64 is its 64 bits,     *)
(* least significant first, so that shifts, masks and to_le_bytes keep     *)
(* their width.                                                            *)

MaxSetBits == 2      \* the sparse inputs have at most MaxSetBits bits set

Bits64 == 1..64

\* the u64 whose set bits are the positions S (position 1 is the lowest bit)
U64Of(S) == [i \in Bits64 |-> IF i \in S THEN 1 ELSE 0]

\* the literal (1 << k) - 1, as written 0b01, 0b011, ... and (1u64 << 40) - 1
LowOnes(k) == U64Of(1..k)

\* v << k on u64
Shl(v, k) == [i \in Bits64 |-> IF i <= k THEN 0 ELSE v[i - k]]

\* v >> k on u64
Shr(v, k) == [i \in Bits64 |-> IF i + k <= 64 THEN v[i + k] ELSE 0]

\* a | b
BitOr(a, b) == [i \in Bits64 |-> IF a[i] = 1 \/ b[i] = 1 THEN 1 ELSE 0]

\* a & b
BitAnd(a, b) == [i \in Bits64 |-> IF a[i] = 1 /\ b[i] = 1 THEN 1 ELSE 0]

\* value < (1 << k)
LessThanPow2(v, k) == \A i \in Bits64 : i > k => v[i] = 0

\* byte j (1 .. 8) of v.to_le_bytes()
ByteOf(v, j) ==
    LET b(n) == v[8 * (j - 1) + n]
    IN  b(1) + 2 * b(2) + 4 * b(3) + 8 * b(4) + 16 * b(5) + 32 * b(6)
          + 64 * b(7) + 128 * b(8)

\* v.to_le_bytes()
to_le_bytes(v) == [j \in 1..8 |-> ByteOf(v, j)]

\* bit n (1 .. 8) of the byte x
BitOfByte(x, n) == (x \div (2 ^ (n - 1))) % 2

\* u16 / u32 / u64 ::from_le_bytes(bytes), widened to u64
from_le_bytes(bytes) ==
    [i \in Bits64 |->
        LET j == ((i - 1) \div 8) + 1
        IN  IF j <= Len(bytes) THEN BitOfByte(bytes[j], ((i - 1) % 8) + 1) ELSE 0]

\* encode_varint, with its first threshold at 1 << 8 instead of 1 << 7
encode_varint_WideFirst(value) ==
    IF LessThanPow2(value, 8) THEN <<ByteOf(Shl(value, 1), 1)>>
    ELSE <<255>> \o to_le_bytes(value)

\* encode_varint(value)
encode_varint(value) ==
    IF LessThanPow2(value, 7) THEN <<ByteOf(Shl(value, 1), 1)>>
    ELSE IF LessThanPow2(value, 14)
         THEN SubSeq(to_le_bytes(BitOr(Shl(value, 2), LowOnes(1))), 1, 2)
    ELSE IF LessThanPow2(value, 21)
         THEN SubSeq(to_le_bytes(BitOr(Shl(value, 3), LowOnes(2))), 1, 3)
    ELSE IF LessThanPow2(value, 28)
         THEN SubSeq(to_le_bytes(BitOr(Shl(value, 4), LowOnes(3))), 1, 4)
    ELSE IF LessThanPow2(value, 35)
         THEN SubSeq(to_le_bytes(BitOr(Shl(value, 5), LowOnes(4))), 1, 5)
    ELSE IF LessThanPow2(value, 42)
         THEN SubSeq(to_le_bytes(BitOr(Shl(value, 6), LowOnes(5))), 1, 6)
    ELSE IF LessThanPow2(value, 49)
         THEN SubSeq(to_le_bytes(BitOr(Shl(value, 7), LowOnes(6))), 1, 7)
    ELSE IF LessThanPow2(value, 56)
         THEN to_le_bytes(BitOr(Shl(value, 8), LowOnes(7)))
    ELSE <<255>> \o to_le_bytes(value)

\* the result of decode_varint: Ok((value, consumed)) or Err
VarintErr == [ok |-> FALSE, value |-> U64Of({}), consumed |-> 0]

VarintOk(v, n) == [ok |-> TRUE, value |-> v, consumed |-> n]

\* decode_varint(data)
decode_varint(data) ==
    IF data = <<>> THEN VarintErr
    ELSE
    LET available == Min(8, Len(data))
        buf == [j \in 1..8 |-> IF j <= available THEN data[j] ELSE 0]
        x32 == from_le_bytes(SubSeq(buf, 1, 4))
        x64 == from_le_bytes(buf)
        low(k) == BitAnd(x32, LowOnes(k))
    IN  IF low(1) = U64Of({}) THEN VarintOk(Shr(from_le_bytes(<<buf[1]>>), 1), 1)
        ELSE IF low(2) = LowOnes(1)
             THEN VarintOk(Shr(from_le_bytes(SubSeq(buf, 1, 2)), 2), 2)
        ELSE IF low(3) = LowOnes(2)
             THEN VarintOk(Shr(from_le_bytes(SubSeq(buf, 1, 3)), 3), 3)
        ELSE IF low(4) = LowOnes(3) THEN VarintOk(Shr(x32, 4), 4)
        ELSE IF low(5) = LowOnes(4)
             THEN VarintOk(BitAnd(Shr(x64, 5), LowOnes(40)), 5)
        ELSE IF low(6) = LowOnes(5)
             THEN VarintOk(BitAnd(Shr(x64, 6), LowOnes(48)), 6)
        ELSE IF low(7) = LowOnes(6)
             THEN VarintOk(BitAnd(Shr(x64, 7), LowOnes(56)), 7)
        ELSE IF low(8) = LowOnes(7) THEN VarintOk(Shr(x64, 8), 8)
        ELSE IF Len(data) < 9 THEN VarintErr
        ELSE VarintOk(from_le_bytes(SubSeq(data, 2, 9)), 9)

\* the table of the format: a packed integer of n bytes carries 7n bits of
\* value for n = 1 .. 8 and 64 bits for n = 9
WidthHolds(n, v) == IF n = 9 THEN TRUE ELSE LessThanPow2(v, 7 * n)

\* the sets of at most n bit positions
PositionSets(n) ==
    LET RECURSIVE Upto(_)
        Upto(k) == IF k = 0 THEN {{}}
                   ELSE LET P == Upto(k - 1)
                        IN  P \cup {s \cup {a} : s \in P, a \in Bits64}
    IN  Upto(n)

\* the values the round trip is run on: at most MaxSetBits bits set, and the
\* runs of low ones 2^k - 1 with at most one of their bits cleared
VarintInputs ==
    {U64Of(S) : S \in PositionSets(MaxSetBits)}
      \cup {U64Of((1..k) \ S) : k \in 0..64, S \in PositionSets(1)}

VintIdle == [pc |-> "idle", value |-> U64Of({}), bytes |-> <<>>, ret |-> VarintErr]

-----------------------------------------------------------------------------
(* arcmax formats/freearc: the bytes of a FreeARC archive.  A byte is an    *)
(* integer 0 .. 255; a string is the sequence of its bytes.                 *)

MaxArcFiles == 2     \* files added to one archive
MaxLzmaGrowth == 1   \* the LZMA codec returns len(input) + 0 .. MaxLzmaGrowth bytes

\* a byte of the external LZMA codec's output: the source does not say its value
OpaqueByte == 256

ARC_SIGNATURE == <<65, 114, 67, 1>>

S_storing == <<115, 116, 111, 114, 105, 110, 103>>

S_lzma == <<108, 122, 109, 97>>

\* BlockType as u8
BlockType_Directory == 3

BlockType_Footer == 4

\* add_file: auto-flush if pending_data.len() > 16 * 1024 * 1024
FlushThreshold == 16777216

\* find_footer_descriptor scans the last SCAN_MAX bytes
SCAN_MAX == 4096

\* the first guess of the footer descriptor's position is footer_start_pos + 1024
FooterGuess == 1024

\* the footer loop is `for _ in 0..3`
FooterTries == 3

\* a small usize / u64 as the u64 it is
U64OfInt(n) == [i \in Bits64 |-> IF i <= 31 THEN (n \div (2 ^ (i - 1))) % 2 ELSE 0]

\* write_varint(writer, value)
write_varint(n) == encode_varint(U64OfInt(n))

\* write_stringz(writer, s)
write_stringz(s) == s \o <<0>>

\* the concatenation of a sequence of byte strings
Concat(ss) ==
    LET RECURSIVE Cat(_)
        Cat(k) == IF k = 0 THEN <<>> ELSE Cat(k - 1) \o ss[k]
    IN  Cat(Len(ss))

\* the values of one 16-bit half
U16 == 0..65535

\* a ^ b on 16-bit halves
Xor16(a, b) ==
    LET X[p \in U16, q \in U16, n \in 0..16] ==
            IF n = 0 THEN 0
            ELSE ((p + q) % 2) + 2 * X[p \div 2, q \div 2, n - 1]
    IN  X[a, b, 16]

\* crc32fast::hash(bytes): CRC-32 (IEEE, reflected polynomial 0xEDB88320), the
\* u32 kept as <<high half, low half>>
crc32fast_hash(bytes) ==
    LET Bit[c \in U16 \X U16] ==
            LET hi == c[1] \div 2
                lo == (c[2] \div 2) + (c[1] % 2) * 32768
            IN  IF c[2] % 2 = 1 THEN <<Xor16(hi, 60856), Xor16(lo, 33568)>>
                ELSE <<hi, lo>>
        Bits[c \in U16 \X U16, n \in 0..8] ==
            IF n = 0 THEN c ELSE Bits[Bit[c], n - 1]
        Fold[c \in U16 \X U16, i \in 1..(Len(bytes) + 1)] ==
            IF i > Len(bytes) THEN c
            ELSE Fold[Bits[<<c[1], Xor16(c[2], bytes[i])>>, 8], i + 1]
        r == Fold[<<65535, 65535>>, 1]
    IN  <<Xor16(r[1], 65535), Xor16(r[2], 65535)>>

\* crc.to_le_bytes() of a u32
u32_to_le_bytes(c) == <<c[2] % 256, c[2] \div 256, c[1] % 256, c[1] \div 256>>

-----------------------------------------------------------------------------
(* FreeArcWriter *)

\* ArchiveOptions with encryption: None, password: None
ArcOptions == {[compression |-> c] : c \in {<<>>, S_storing, S_lzma}}

\* method.starts_with("lzma")
StartsWithLzma(method) == Len(method) >= 4 /\ SubSeq(method, 1, 4) = S_lzma

\* compress_and_encrypt(data): (processed, method).  The LZMA codec is outside
\* the repository; its output is `grow` bytes longer than its input.
compress_and_encrypt(options, data, grow) ==
    LET method == IF options.compression = <<>> THEN S_storing ELSE options.compression
    IN  [data   |-> IF StartsWithLzma(method)
                    THEN [i \in 1..(Len(data) + grow) |-> OpaqueByte]
                    ELSE data,
         method |-> method]

\* FreeArcWriter::new(writer, options) on a writer at stream position 0
FreeArcWriter_new(options) ==
    [out |-> ARC_SIGNATURE, options |-> options, files |-> <<>>, data_blocks |-> <<>>,
     directories |-> << <<>> >>, current_offset |-> Len(ARC_SIGNATURE),
     pending_data |-> <<>>, pending_files |-> <<>>]

\* flush_block(&mut self)
flush_block(w, grow) ==
    IF w.pending_data = <<>> THEN w
    ELSE LET c == compress_and_encrypt(w.options, w.pending_data, grow)
             block_idx == Len(w.data_blocks)
         IN  [w EXCEPT
                !.out = @ \o c.data,
                !.current_offset = @ + Len(c.data),
                !.data_blocks = Append(@, [compressor |-> c.method,
                                           original_size |-> Len(w.pending_data),
                                           compressed_size |-> Len(c.data),
                                           offset |-> w.current_offset,
                                           num_files |-> Len(w.pending_files)]),
                !.files = @ \o [k \in 1..Len(w.pending_files) |->
                                  [w.pending_files[k] EXCEPT !.data_block_index = block_idx]],
                !.pending_files = <<>>,
                !.pending_data = <<>>]

\* add_file(&mut self, path, data)
add_file(w, path, data, grow) ==
    LET file_info == [name |-> path, dir_index |-> 0, size |-> Len(data), time |-> 0,
                      is_dir |-> FALSE, crc |-> crc32fast_hash(data),
                      data_block_index |-> -1,
                      offset_in_block |-> Len(w.pending_data)]
        w1 == [w EXCEPT !.pending_data = @ \o data,
                        !.pending_files = Append(@, file_info)]
    IN  IF Len(w1.pending_data) > FlushThreshold THEN flush_block(w1, grow) ELSE w1

\* DirectoryBlock::write
DirectoryBlock_write(dir) ==
    LET B == dir.data_blocks
        F == dir.files
        list(n, f(_)) == Concat([k \in 1..n |-> f(k)])
        blk_files(k) == write_varint(B[k].num_files)
        blk_comp(k) == write_stringz(B[k].compressor)
        blk_off(k) == write_varint(B[k].offset)
        blk_size(k) == write_varint(B[k].compressed_size)
        dir_name(k) == write_stringz(dir.directories[k])
        f_name(k) == write_stringz(F[k].name)
        f_dir(k) == write_varint(F[k].dir_index)
        f_size(k) == write_varint(F[k].size)
        f_time(k) == <<0, 0, 0, 0>>
        f_isdir(k) == <<IF F[k].is_dir THEN 1 ELSE 0>>
        f_crc(k) == u32_to_le_bytes(F[k].crc)
    IN  write_varint(Len(B))
          \o list(Len(B), blk_files) \o list(Len(B), blk_comp)
          \o list(Len(B), blk_off) \o list(Len(B), blk_size)
          \o write_varint(Len(dir.directories))
          \o list(Len(dir.directories), dir_name)
          \o list(Len(F), f_name) \o list(Len(F), f_dir) \o list(Len(F), f_size)
          \o list(Len(F), f_time) \o list(Len(F), f_isdir) \o list(Len(F), f_crc)
          \o <<0>>

\* FooterBlock::write(writer, footer_desc_pos) with locked: false and empty
\* comment and recovery
FooterBlock_write(control_blocks, footer_desc_pos) ==
    LET blk(k) == LET b == control_blocks[k]
                  IN  write_varint(b.block_type) \o write_stringz(b.compressor)
                        \o write_varint(footer_desc_pos - b.pos)
                        \o write_varint(b.orig_size) \o write_varint(b.comp_size)
                        \o u32_to_le_bytes(b.crc)
    IN  write_varint(Len(control_blocks))
          \o Concat([k \in 1..Len(control_blocks) |-> blk(k)])
          \o <<0>> \o write_varint(0) \o write_stringz(<<>>) \o write_varint(0)

\* BlockDescriptor::write
BlockDescriptor_write(d) ==
    LET buf == ARC_SIGNATURE \o write_varint(d.block_type) \o d.compressor \o <<0>>
                 \o write_varint(d.orig_size) \o write_varint(d.comp_size)
                 \o u32_to_le_bytes(d.crc)
    IN  buf \o u32_to_le_bytes(crc32fast_hash(buf))

\* the codec's growth for one input: the same input gives the same output
GrowFor(seen, content, fresh) ==
    IF \E p \in seen : p.content = content
    THEN (CHOOSE p \in seen : p.content = content).grow
    ELSE fresh

\* finish: the footer retry loop, from try k on
RECURSIVE FooterLoop(_, _, _, _, _, _, _)
FooterLoop(w, dir_desc, footer_start_pos, footer_desc_pos, k, grows, seen) ==
    IF k > FooterTries
    THEN [ok |-> TRUE, out |-> w.out, footer_written |-> FALSE, tries |-> FooterTries]
    ELSE
    LET footer_content == FooterBlock_write(<<dir_desc>>, footer_desc_pos)
        grow == GrowFor(seen, footer_content, grows[k])
        c == compress_and_encrypt(w.options, footer_content, grow)
        new_footer_desc_pos == footer_start_pos + Len(c.data)
        footer_desc == [block_type |-> BlockType_Footer, compressor |-> c.method,
                        orig_size |-> Len(footer_content), comp_size |-> Len(c.data),
                        crc |-> crc32fast_hash(footer_content),
                        pos |-> footer_start_pos]
    IN  IF new_footer_desc_pos = footer_desc_pos
        THEN [ok |-> TRUE, out |-> w.out \o c.data \o BlockDescriptor_write(footer_desc),
              footer_written |-> TRUE, tries |-> k]
        ELSE FooterLoop(w, dir_desc, footer_start_pos, new_footer_desc_pos, k + 1, grows,
                        seen \cup {[content |-> footer_content, grow |-> grow]})

\* finish(mut self)
finish(w0, grow_data, grow_dir, grows) ==
    LET w1 == flush_block(w0, grow_data)
        dir_start_pos == w1.current_offset
        dir_block == [data_blocks |-> [k \in 1..Len(w1.data_blocks) |->
                                         [w1.data_blocks[k] EXCEPT
                                            !.offset = dir_start_pos - @]],
                      directories |-> w1.directories,
                      files |-> w1.files]
        dir_content == DirectoryBlock_write(dir_block)
        c == compress_and_encrypt(w1.options, dir_content, grow_dir)
        w2 == [w1 EXCEPT !.out = @ \o c.data,
                         !.current_offset = @ + Len(c.data),
                         !.data_blocks = <<>>, !.directories = <<>>, !.files = <<>>]
        dir_desc == [block_type |-> BlockType_Directory, compressor |-> c.method,
                     orig_size |-> Len(dir_content), comp_size |-> Len(c.data),
                     crc |-> crc32fast_hash(dir_content), pos |-> dir_start_pos]
        footer_start_pos == w2.current_offset
    IN  FooterLoop(w2, dir_desc, footer_start_pos, footer_start_pos + FooterGuess, 1,
                   grows, {}) @@ [dir_block |-> dir_block]

-----------------------------------------------------------------------------
(* FreeArcReader: a reader is the bytes and the 1-based index of the next   *)
(* byte; every read returns [ok, val, pos]                                  *)

RdErr == [ok |-> FALSE, val |-> <<>>, pos |-> 0]

RdOk(v, p) == [ok |-> TRUE, val |-> v, pos |-> p]

\* reader.read_exact(&mut [0u8; n])
read_exact(buf, pos, n) ==
    IF pos + n - 1 > Len(buf) THEN RdErr
    ELSE RdOk(SubSeq(buf, pos, pos + n - 1), pos + n)

\* u8::trailing_zeros
trailing_zeros(x) ==
    IF x = 0 THEN 8
    ELSE CHOOSE k \in 0..7 : x % (2 ^ k) = 0 /\ (x \div (2 ^ k)) % 2 = 1

\* utils::read_varint(reader): the value, as decode_varint returns it.  Bytes
\* of codec output are not taken to form a packed integer.
read_varint(buf, pos) ==
    LET first == read_exact(buf, pos, 1)
    IN  IF ~first.ok \/ first.val[1] = OpaqueByte THEN RdErr
        ELSE
        LET extra_bytes == IF first.val[1] = 255 THEN 8
                           ELSE trailing_zeros(first.val[1])
            rest == read_exact(buf, pos + 1, extra_bytes)
        IN  IF ~rest.ok \/ OpaqueByte \in Range(rest.val) THEN RdErr
            ELSE LET d == decode_varint(first.val \o rest.val)
                 IN  IF d.ok THEN RdOk(d.value, rest.pos) ELSE RdErr

\* utils::read_stringz(reader)
read_stringz(buf, pos) ==
    LET Z == {j \in pos..Len(buf) : buf[j] = 0}
    IN  IF Z = {} THEN RdErr
        ELSE LET z == CHOOSE j \in Z : \A i \in Z : j <= i
             IN  RdOk(SubSeq(buf, pos, z - 1), z + 1)

\* Option<u64>::None of BlockDescriptor.pos
NoPos == -1

\* one field of a descriptor read at pos: the signature (which must be
\* ARC_SIGNATURE), a packed integer, a zero-ended string, or four bytes
read_field(kind, buf, pos) ==
    CASE kind = "signature" ->
             LET sig == read_exact(buf, pos, 4)
             IN  IF sig.ok /\ sig.val = ARC_SIGNATURE THEN sig ELSE RdErr
      [] kind = "varint" -> read_varint(buf, pos)
      [] kind = "stringz" -> read_stringz(buf, pos)
      [] kind = "u32" -> read_exact(buf, pos, 4)

\* the `?` after each read: the fields so far, then this one
then_field(prev, r) ==
    IF ~r.ok THEN RdErr ELSE RdOk(Append(prev.val, r.val), r.pos)

next_field(kind, buf, prev) ==
    IF ~prev.ok THEN RdErr ELSE then_field(prev, read_field(kind, buf, prev.pos))

\* the first k fields of `kinds`, read one after the other from pos
RECURSIVE read_fields(_, _, _, _)
read_fields(kinds, buf, pos, k) ==
    IF k = 0 THEN RdOk(<<>>, pos)
    ELSE next_field(kinds[k], buf, read_fields(kinds, buf, pos, k - 1))

\* BlockDescriptor { block_type, compressor, orig_size, comp_size, crc, pos: None }
BlockDescriptor_of(r) ==
    IF ~r.ok THEN RdErr
    ELSE RdOk([block_type |-> ByteOf(r.val[2], 1), compressor |-> r.val[3],
               orig_size |-> r.val[4], comp_size |-> r.val[5],
               crc |-> r.val[6], pos |-> NoPos],
              r.pos)

\* BlockDescriptor::read(reader), the reader positioned at pos: signature,
\* block_type, compressor, orig_size, comp_size, crc, descriptor crc
BlockDescriptor_read(buf, pos) ==
    BlockDescriptor_of(
        read_fields(<<"signature", "varint", "stringz", "varint", "varint", "u32", "u32">>,
                    buf, pos, 7))

\* find_footer_descriptor(reader, file_size): (descriptor, position) of the
\* last signature in the scan window at which a descriptor parses
find_footer_descriptor(buf) ==
    LET file_size == Len(buf)
        scan_size == Min(file_size, SCAN_MAX)
        base == file_size - scan_size
        At(i) == BlockDescriptor_read(buf, base + i + 1)
        Hits == {i \in 0..(scan_size - 5) :
                    SubSeq(buf, base + i + 1, base + i + 4) = ARC_SIGNATURE /\ At(i).ok}
    IN  IF Hits = {} THEN [ok |-> FALSE, desc_pos |-> NoPos, block_pos |-> NoPos]
        ELSE LET i == CHOOSE h \in Hits : \A g \in Hits : g <= h
             IN  [ok |-> TRUE, desc_pos |-> base + i, block_pos |-> At(i).val.pos]

\* FreeArcReader::new(reader, None) up to the first `?` that can return: step 1
\* (find_footer_descriptor) and the position check that opens step 2
\* (read_control_block: desc.pos.ok_or_else(..)?).  Steps 2 to 6 go on from a
\* descriptor that carries a position.
FreeArcReader_new(buf) ==
    LET found == find_footer_descriptor(buf)
    IN  IF ~found.ok THEN [ok |-> FALSE, at |-> "find_footer_descriptor"]
        ELSE IF found.block_pos = NoPos
             THEN [ok |-> FALSE, at |-> "read_control_block"]
             ELSE [ok |-> TRUE, at |-> "footer"]

\* no archive is being written
ArcIdle ==
    [pc |-> "idle", options |-> [compression |-> <<>>], todo |-> <<>>, added |-> <<>>,
     w |-> FreeArcWriter_new([compression |-> <<>>]),
     fin |-> [ok |-> FALSE, out |-> <<>>, footer_written |-> FALSE, tries |-> 0,
              dir_block |-> [data_blocks |-> <<>>, directories |-> <<>>, files |-> <<>>]],
     reader |-> [ok |-> FALSE, at |-> "none"]]

\* no video is being probed
ProbeIdle == <<>>

LibIdle == vint = VintIdle /\ arc = ArcIdle /\ probe = ProbeIdle /\ video = [pc |-> "idle"]
           /\ img = [pc |-> "idle"]
           /\ gate = [pc |-> "idle"]
           /\ cblock = [pc |-> "idle"]
           /\ extr = [pc |-> "idle"]
           /\ hfile = [pc |-> "idle"]

-----------------------------------------------------------------------------
(* The catalog API driven by an embedder, with the file system changing     *)
(* underneath it                                                            *)

FsKeys(w) == {FsKey(w, p) : p \in CatPaths}

\* the entry the callers build for a file: its normalised path and its
\* current size and mtime (record_catalog_entries, the tests)
EntryOf(w, d, path) ==
    [path |-> normalize_path(w, path),
     size |-> Metadata(w, d, path).size,
     mtime_secs |-> get_mtime_secs(Metadata(w, d, path)),
     sha256 |-> None,
     archive_id |-> None]

CatInit ==
    /\ windows \in BOOLEAN
    /\ disk = [k \in FsKeys(windows) |-> [exists |-> TRUE, size |-> 1, mtime |-> 0]]
    /\ now = 0
    /\ table = {}
    /\ lastCall = [op |-> "none", arg |-> None, ret |-> None]
    /\ archives = {}
    /\ archive_files = {}
    /\ output = NoOutput
    /\ settings = [enable_catalog |-> TRUE, enable_dedup |-> TRUE,
                   skip_already_compressed_videos |-> TRUE]
    /\ input_paths = <<>>
    /\ runNo = 1
    /\ mainPc = "idle"
    /\ run = NoRun
    /\ wk = <<>>
    /\ poolFull = FALSE
    /\ heavyCount = HeavyCapacity
    /\ staging = {}
    /\ stagingExists = FALSE
    /\ processed = <<>>
    /\ completed_count = 0
    /\ queue = <<>>
    /\ cbLog = <<>>
    /\ warnings = {}
    /\ result = NoResult
    /\ LibIdle

\* catalog.record_backup(entry)
CatRecordBackup ==
    /\ \E entry \in BackupEntries(windows), dbOk \in BOOLEAN :
         LET r == record_backup(table, now, entry, dbOk)
         IN /\ table' = r.table
            /\ lastCall' = [op |-> "record_backup",
                            arg |-> IF r.ok /\ \E old \in table : old.path = entry.path
                                    THEN "replaced" ELSE None,
                            ret |-> IF r.ok THEN "Ok" ELSE "Err"]
    /\ UNCHANGED <<libVars, windows, disk, now, regVars, runVars>>

\* catalog.record_backups(entries), the entries built from existing files
CatRecordBackups ==
    /\ \E paths \in SeqsOf({p \in CatPaths : Metadata(windows, disk, p).exists},
                             0, MaxBatch),
          dbOk \in BOOLEAN :
         LET entries == [i \in 1..Len(paths) |-> EntryOf(windows, disk, paths[i])]
             r == record_backups(table, now, entries, dbOk)
         IN /\ table' = r.table
            /\ lastCall' = [op |-> "record_backups", arg |-> None,
                            ret |-> IF r.ok THEN "Ok" ELSE "Err"]
    /\ UNCHANGED <<libVars, windows, disk, now, regVars, runVars>>

\* catalog.should_skip_file(path)
CatShouldSkipFile ==
    /\ \E path \in CatPaths, dbOk \in BOOLEAN :
         lastCall' = [op |-> "should_skip_file", arg |-> path,
                      ret |-> should_skip_file(windows, table, disk, path, dbOk)]
    /\ UNCHANGED <<libVars, windows, disk, now, table, regVars, runVars>>

\* sequences of distinct elements of S, up to n long
DistinctSeqsOf(S, n) ==
    {s \in SeqsOf(S, 0, n) : \A i, j \in 1..Len(s) : i # j => s[i] # s[j]}

\* catalog.filter_files_to_backup(file_paths), no path given twice
CatFilterFilesToBackup ==
    /\ \E file_paths \in DistinctSeqsOf(CatPaths, MaxBatch) :
       \E dbOk \in [1..Len(file_paths) -> BOOLEAN] :
         lastCall' = [op |-> "filter_files_to_backup", arg |-> file_paths,
                      ret |-> filter_files_to_backup(windows, table, disk, file_paths, dbOk)]
    /\ UNCHANGED <<libVars, windows, disk, now, table, regVars, runVars>>

\* catalog.list_all()
CatListAll ==
    /\ \E rows \in ListAllResults(table) :
         lastCall' = [op |-> "list_all", arg |-> None,
                      ret |-> [i \in 1..Len(rows) |-> RowToEntry(rows[i])]]
    /\ UNCHANGED <<libVars, windows, disk, now, table, regVars, runVars>>

\* the file the owner works on; the other file stays as it is
Edited(w) == FsKey(w, P_d1_a_jpg)

\* the file is rewritten or touched by its owner
EnvWriteFile ==
    /\ \E k \in {Edited(windows)}, m \in FileMeta :
         /\ disk[k] # m
         /\ disk[k].exists => m.mtime >= disk[k].mtime
         /\ disk' = [disk EXCEPT ![k] = m]
         /\ lastCall' = [op |-> "none", arg |-> None, ret |-> None]
    /\ UNCHANGED <<libVars, windows, now, table, regVars, runVars>>

\* the file is deleted by its owner
EnvRemoveFile ==
    /\ \E k \in {Edited(windows)} :
         /\ disk[k].exists
         /\ disk' = [disk EXCEPT ![k] = NoFile]
         /\ lastCall' = [op |-> "none", arg |-> None, ret |-> None]
    /\ UNCHANGED <<libVars, windows, now, table, regVars, runVars>>

\* a second passes
Tick ==
    /\ now < MaxClock
    /\ now' = now + 1
    /\ UNCHANGED <<libVars, windows, disk, table, lastCall, regVars, runVars>>

CatNext ==
    \/ CatRecordBackup
    \/ CatRecordBackups
    \/ CatShouldSkipFile
    \/ CatFilterFilesToBackup
    \/ CatListAll
    \/ EnvWriteFile
    \/ EnvRemoveFile
    \/ Tick

SpecCatalog == CatInit /\ [][CatNext]_vars

-----------------------------------------------------------------------------
(* create_archive, run on a fixed set of files, then run again *)

Init ==
    /\ windows = FALSE
    /\ disk = [k \in Universe |-> [exists |-> TRUE, size |-> FileSize(k), mtime |-> 0]]
    /\ now = 0
    /\ table = {}
    /\ lastCall = [op |-> "none", arg |-> None, ret |-> None]
    /\ archives = {}
    /\ archive_files = {}
    /\ output = NoOutput
    /\ \/ /\ settings \in SettingsSet
          /\ input_paths \in SeqsOf(Universe, 0, MaxFiles)
       \/ /\ settings = [enable_catalog |-> TRUE, enable_dedup |-> FALSE,
                          skip_already_compressed_videos |-> TRUE]
          /\ input_paths = [i \in 1..MaxHeavy |-> P_d1_v_mov]
    /\ runNo = 1
    /\ mainPc = "idle"
    /\ run = NoRun
    /\ wk = <<>>
    /\ poolFull = FALSE
    /\ heavyCount = HeavyCapacity
    /\ staging = {}
    /\ stagingExists = FALSE
    /\ processed = <<>>
    /\ completed_count = 0
    /\ queue = <<>>
    /\ cbLog = <<>>
    /\ warnings = {}
    /\ result = NoResult
    /\ LibIdle

\* a return that leaves the TempDir behind (as TempDir::into_path would)
ReturnWith_KeepStaging(r) ==
    /\ mainPc' = "returned"
    /\ result' = r
    /\ UNCHANGED <<staging, stagingExists>>

\* `return Err(..)` / unwinding out of create_archive: the TempDir is dropped
ReturnWith(r) ==
    /\ mainPc' = "returned"
    /\ result' = r
    /\ staging' = {}
    /\ stagingExists' = FALSE

\* work.iter().any(|w| w.class == FileClass::Misc), with HasMisc forced on
has_misc_files_Always(work) == TRUE

\* let has_misc_files = work.iter().any(|w| w.class == FileClass::Misc);
has_misc_files(work) == \E k \in 1..Len(work) : work[k].class = "Misc"

\* create_archive up to the start of the pool: discovery, catalog filter,
\* the "Preparing..." callback, dedup, the work list, the staging directory.
\* Opening the catalog can fail, creating the staging directory can fail;
\* the catalog's queries succeed.
Begin ==
    /\ mainPc = "idle"
    /\ LET discovered == collect_files(windows, disk, input_paths)
           f == IF settings.enable_catalog
                THEN filter_files_to_backup(windows, table, disk, discovered,
                                            [i \in 1..Len(discovered) |-> TRUE])
                ELSE [skip |-> <<>>, backup |-> discovered]
           dd == IF settings.enable_dedup
                 THEN DedupFrom(windows, f.backup, EmptyMap, EmptyMap)
                 ELSE [dedup_canon |-> EmptyMap, duplicates_of |-> EmptyMap]
           work == WorkFrom(windows, discovered, 1, settings.enable_dedup,
                            f.skip, dd.duplicates_of)
       IN IF discovered = <<>>
          THEN /\ ReturnWith([NoResult EXCEPT !.kind = "Ok"])
               /\ UNCHANGED <<run, wk, cbLog>>
          ELSE \E fail \in {"none", "staging"} \cup
                            (IF settings.enable_catalog THEN {"catalog"} ELSE {}) :
                 /\ cbLog' = IF fail = "catalog" THEN cbLog
                             ELSE Append(cbLog, [count |-> 0, total |-> Len(discovered)])
                 /\ IF fail # "none"
                    THEN /\ ReturnWith(ErrResult(fail))
                         /\ UNCHANGED <<run, wk>>
                    ELSE /\ run' = [discovered |-> discovered,
                                    skipped_by_catalog |-> f.skip,
                                    to_process |-> f.backup,
                                    dedup_canon |-> dd.dedup_canon,
                                    duplicates_of |-> dd.duplicates_of,
                                    work |-> work]
                         /\ wk' = [i \in 1..Len(work) |->
                                      [pc |-> "todo", holds |-> FALSE, seq |-> -1]]
                         /\ mainPc' = "pool"
                         /\ stagingExists' = TRUE
                         /\ staging' = {[path |-> S_media, by |-> -1]} \cup
                               (IF has_misc_files(work)
                                THEN {[path |-> S_misc, by |-> -1]} ELSE {})
                         /\ UNCHANGED result
    /\ UNCHANGED <<libVars, catVars, regVars, output, settings, input_paths, runNo, poolFull,
                   heavyCount, processed, completed_count, queue, warnings>>

\* the item goes through the heavy limiter: a large image, or a video that
\* will be transcoded
NeedsPermit(item, efficient) ==
    \/ IsHeavyImage(item)
    \/ /\ item.class = "Video"
       /\ ~(settings.skip_already_compressed_videos /\ efficient)

\* what the end of an arm does to the item, the staging directory and the
\* processed list; a failing arm fills the consumer of try_for_each
ArmEnds(i, outcome, release) ==
    LET item == run.work[i]
        wake == IF release THEN Waiters ELSE {}
    IN /\ \E j \in (IF wake = {} THEN {0} ELSE wake) :
            wk' = [k \in Items |->
                     IF k = i
                     THEN [pc |-> CASE outcome = "panic" -> "panicked"
                                    [] outcome \in {"encode_err", "io_err"} -> outcome
                                    [] OTHER -> "pushed",
                           holds |-> wk[i].holds /\ ~release,
                           seq |-> -1]
                     ELSE IF k = j THEN [wk[k] EXCEPT !.pc = "acquire"]
                     ELSE wk[k]]
       /\ heavyCount' = IF release THEN GuardDrop(heavyCount) ELSE heavyCount
       /\ poolFull' = (poolFull \/ outcome \in {"encode_err", "io_err"})
       /\ IF outcome \in {"encoded", "copy_through", "copied"}
          THEN /\ staging' = staging \cup
                     {[path |-> ArtefactPath(item, outcome), by |-> item.idx]}
               /\ processed' = Append(processed, ProcessedFileOf(item, outcome))
          ELSE UNCHANGED <<staging, processed>>

\* a worker takes an item that needs no permit and runs its arm to the push
\* onto processed: a small image, a video copied as it is, a misc file
WorkerRun(i) ==
    /\ wk[i].pc = "todo"
    /\ ~poolFull
    /\ \E efficient \in BOOLEAN :
         /\ ~NeedsPermit(run.work[i], efficient)
         /\ run.work[i].class = "Video" \/ efficient
         /\ \E outcome \in ArmOutcomes(run.work[i], FALSE) :
              ArmEnds(i, outcome, FALSE)
    /\ UNCHANGED <<libVars, catVars, regVars, output, settings, input_paths, runNo, mainPc, run,
                   stagingExists, completed_count, queue, cbLog, warnings, result>>

\* a worker takes an item that needs a permit and reaches acquire()
WorkerBegin(i) ==
    /\ wk[i].pc = "todo"
    /\ ~poolFull
    /\ \E efficient \in BOOLEAN : NeedsPermit(run.work[i], efficient)
    /\ wk' = [wk EXCEPT ![i].pc = "acquire"]
    /\ UNCHANGED <<libVars, catVars, regVars, output, settings, input_paths, runNo, mainPc, run,
                   poolFull, heavyCount, staging, stagingExists, processed,
                   completed_count, queue, cbLog, warnings, result>>

\* HeavyLimiter::acquire under the lock: take a permit or wait on the condvar
Acquire(i) ==
    /\ wk[i].pc = "acquire"
    /\ IF AcquireAdmits(heavyCount)
       THEN /\ heavyCount' = heavyCount - 1
            /\ wk' = [wk EXCEPT ![i].pc = "work", ![i].holds = TRUE]
       ELSE /\ wk' = [wk EXCEPT ![i].pc = "waiting"]
            /\ UNCHANGED heavyCount
    /\ UNCHANGED <<libVars, catVars, regVars, output, settings, input_paths, runNo, mainPc, run,
                   poolFull, staging, stagingExists, processed, completed_count, queue,
                   cbLog, warnings, result>>

\* Condvar::wait returns without a notification
SpuriousWake(i) ==
    /\ wk[i].pc = "waiting"
    /\ wk' = [wk EXCEPT ![i].pc = "acquire"]
    /\ UNCHANGED <<libVars, catVars, regVars, output, settings, input_paths, runNo, mainPc, run,
                   poolFull, heavyCount, staging, stagingExists, processed,
                   completed_count, queue, cbLog, warnings, result>>

\* the arm of an item that holds a permit; the guard is dropped where the arm
\* ends, except on the copy-through return, which drops it after the send
Process(i) ==
    /\ wk[i].pc = "work"
    /\ \E outcome \in ArmOutcomes(run.work[i], TRUE) :
         ArmEnds(i, outcome, outcome # "copy_through")
    /\ UNCHANGED <<libVars, catVars, regVars, output, settings, input_paths, runNo, mainPc, run,
                   stagingExists, completed_count, queue, cbLog, warnings, result>>

\* a load of completed_count without the add
FetchAdd_LoadOnly(i) ==
    /\ wk[i].pc = "pushed"
    /\ wk' = [wk EXCEPT ![i].pc = "sending", ![i].seq = completed_count]
    /\ UNCHANGED completed_count
    /\ UNCHANGED <<libVars, catVars, regVars, output, settings, input_paths, runNo, mainPc, run,
                   poolFull, heavyCount, staging, stagingExists, processed, queue,
                   cbLog, warnings, result>>

\* completed_count.fetch_add(1, Relaxed)
FetchAdd(i) ==
    /\ wk[i].pc = "pushed"
    /\ wk' = [wk EXCEPT ![i].pc = "sending", ![i].seq = completed_count]
    /\ completed_count' = completed_count + 1
    /\ UNCHANGED <<libVars, catVars, regVars, output, settings, input_paths, runNo, mainPc, run,
                   poolFull, heavyCount, staging, stagingExists, processed, queue,
                   cbLog, warnings, result>>

\* tx.send(WorkDone { idx: seq, .. }) and the return of the closure
Send(i) ==
    /\ wk[i].pc = "sending"
    /\ queue' = Append(queue, wk[i].seq)
    /\ LET wake == IF wk[i].holds THEN Waiters ELSE {}
       IN \E j \in (IF wake = {} THEN {0} ELSE wake) :
            wk' = [k \in Items |->
                     IF k = i THEN [wk[i] EXCEPT !.pc = "done", !.holds = FALSE]
                     ELSE IF k = j THEN [wk[k] EXCEPT !.pc = "acquire"]
                     ELSE wk[k]]
    /\ heavyCount' = IF wk[i].holds THEN GuardDrop(heavyCount) ELSE heavyCount
    /\ UNCHANGED <<libVars, catVars, regVars, output, settings, input_paths, runNo, mainPc, run,
                   poolFull, staging, stagingExists, processed, completed_count,
                   cbLog, warnings, result>>

\* the progress thread: rx.recv() and cb(done.idx + 1, work_total, ..)
ProgressRecv ==
    /\ queue # <<>>
    /\ cbLog' = Append(cbLog, [count |-> Head(queue) + 1, total |-> Len(run.work)])
    /\ queue' = Tail(queue)
    /\ UNCHANGED <<libVars, catVars, regVars, output, settings, input_paths, runNo, mainPc, run,
                   wk, poolFull, heavyCount, staging, stagingExists, processed,
                   completed_count, warnings, result>>

\* install(..)? returns: a panic of a worker resumes in the caller, the first
\* Err is returned, otherwise the call goes on
PoolDone ==
    /\ mainPc = "pool"
    /\ WorkersJoined(wk, poolFull)
    /\ IF \E i \in Items : wk[i].pc = "panicked"
       THEN ReturnWith(PanicResult)
       ELSE IF \E i \in Items : wk[i].pc \in {"encode_err", "io_err"}
       THEN ReturnWith(ErrResult("worker"))
       ELSE /\ mainPc' = "join"
            /\ UNCHANGED <<staging, stagingExists, result>>
    /\ UNCHANGED <<libVars, catVars, regVars, output, settings, input_paths, runNo, run, wk,
                   poolFull, heavyCount, processed, completed_count, queue, cbLog,
                   warnings>>

\* drop(tx); progress_thread.join()
JoinProgress ==
    /\ mainPc = "join"
    /\ queue = <<>>
    /\ mainPc' = "metadata"
    /\ UNCHANGED <<libVars, catVars, regVars, output, settings, input_paths, runNo, run, wk,
                   poolFull, heavyCount, staging, stagingExists, processed,
                   completed_count, queue, cbLog, warnings, result>>

\* one sequential step of the main thread that writes a staging file and
\* returns its error through `?`
MainWrites(at, path, writes, next) ==
    /\ mainPc = at
    /\ \E ok \in BOOLEAN :
         IF ok
         THEN /\ staging' = IF writes THEN staging \cup {[path |-> path, by |-> -1]}
                            ELSE staging
              /\ mainPc' = next
              /\ UNCHANGED <<stagingExists, result>>
         ELSE ReturnWith(ErrResult(at))
    /\ UNCHANGED <<libVars, catVars, regVars, output, settings, input_paths, runNo, run, wk,
                   poolFull, heavyCount, processed, completed_count, queue, cbLog,
                   warnings>>

HasMisc == \E k \in 1..Len(processed) : processed[k].class = "Misc"

\* fs::write(&metadata_path, &metadata_json)?
WriteMetadataJson == MainWrites("metadata", S_metadata_json, TRUE, "misc_arc")

\* create_misc_arc: no file when no misc file was processed
CreateMiscArc == MainWrites("misc_arc", S_misc_arc, HasMisc, "manifest")

\* write_manifest: the lines of the `for p in processed` loop, each
\* "{original_path} -> {archived_rel_path} ({original_size} -> ..)[..]"
write_manifest(procd) ==
    [k \in 1..Len(procd) |->
        [original_path |-> procd[k].original_path,
         archived_rel_path |-> procd[k].archived_rel_path,
         original_size |-> procd[k].original_size,
         skipped_processing |-> procd[k].skipped_processing,
         original_format |-> procd[k].original_format]]

\* write_manifest
WriteManifest == MainWrites("manifest", S_manifest, TRUE, "hashes")

\* write_hashes
WriteHashes == MainWrites("hashes", S_hashes, TRUE, "seal")

\* archive_dir_tar_zst(temp_dir, output_archive)?
SealContainer ==
    /\ mainPc = "seal"
    /\ \E ok \in BOOLEAN :
         IF ok
         THEN /\ output' = [members |-> StagingPaths, run |-> runNo]
              /\ mainPc' = IF settings.enable_catalog THEN "catalog" ELSE "finish"
              /\ UNCHANGED <<staging, stagingExists, result>>
         ELSE /\ ReturnWith(ErrResult("seal"))
              /\ UNCHANGED output
    /\ UNCHANGED <<libVars, catVars, regVars, settings, input_paths, runNo, run, wk, poolFull,
                   heavyCount, processed, completed_count, queue, cbLog, warnings>>

\* record_catalog_entries: one entry per processed file, recorded in one batch
record_catalog_entries(w, d, procd) ==
    [k \in 1..Len(procd) |->
        [path |-> normalize_path(w, procd[k].original_path),
         size |-> Metadata(w, d, procd[k].original_path).size,
         mtime_secs |-> get_mtime_secs(Metadata(w, d, procd[k].original_path)),
         sha256 |-> procd[k].sha256,
         archive_id |-> ArchiveId]]

\* record_catalog_entries(cat, &processed, output_archive)?
UpdateCatalog ==
    /\ mainPc = "catalog"
    /\ \E dbOk \in BOOLEAN :
         LET r == record_backups(table, now,
                                 record_catalog_entries(windows, disk, processed), dbOk)
         IN /\ table' = r.table
            /\ IF r.ok
               THEN /\ mainPc' = "registry"
                    /\ UNCHANGED <<staging, stagingExists, result>>
               ELSE ReturnWith(ErrResult("catalog"))
    /\ UNCHANGED <<libVars, windows, disk, now, lastCall, regVars, output, settings, input_paths,
                   runNo, run, wk, poolFull, heavyCount, processed, completed_count,
                   queue, cbLog, warnings>>

\* ArchiveTracker::record_archive: INSERT, the id is the next rowid
record_archive(a, file_count) ==
    a \cup {[id |-> Cardinality(a) + 1, archive_path |-> ArchiveId,
             file_count |-> file_count]}

\* ArchiveTracker::record_archive_files
record_archive_files(af, archive_id, procd) ==
    af \cup {[id |-> Cardinality(af) + k,
              archive_id |-> archive_id,
              file_path |-> procd[k].archived_rel_path,
              original_path |-> procd[k].original_path] : k \in 1..Len(procd)}

\* fs::metadata(output_archive)?, then the registry rows, whose failures are
\* printed as warnings
UpdateRegistry ==
    /\ mainPc = "registry"
    /\ \E how \in {"ok", "metadata", "tracker", "archive", "files"} :
         /\ IF how = "metadata"
            THEN ReturnWith(ErrResult("archive_metadata"))
            ELSE /\ mainPc' = "finish"
                 /\ UNCHANGED <<staging, stagingExists, result>>
         /\ archives' = IF how \in {"ok", "files"}
                        THEN record_archive(archives, Len(processed)) ELSE archives
         /\ archive_files' = IF how = "ok"
                             THEN record_archive_files(archive_files,
                                                       Cardinality(archives) + 1, processed)
                             ELSE archive_files
         /\ warnings' = IF how \in {"tracker", "archive", "files"}
                        THEN warnings \cup {how} ELSE warnings
    /\ UNCHANGED <<libVars, catVars, output, settings, input_paths, runNo, run, wk, poolFull,
                   heavyCount, processed, completed_count, queue, cbLog>>

\* Ok(OrchestratorResult { .. })
ReturnOk ==
    /\ mainPc = "finish"
    /\ ReturnWith([kind |-> "Ok", at |-> None,
                   discovered_files |-> run.discovered,
                   processed |-> processed,
                   skipped_by_catalog |-> run.skipped_by_catalog,
                   dedup_groups |-> IF settings.enable_dedup
                                    THEN Cardinality(DOMAIN run.dedup_canon) ELSE 0])
    /\ UNCHANGED <<libVars, catVars, regVars, output, settings, input_paths, runNo, run, wk,
                   poolFull, heavyCount, processed, completed_count, queue, cbLog,
                   warnings>>

\* the embedder calls create_archive a second time with the same arguments
Rerun ==
    /\ mainPc = "returned"
    /\ result.kind = "Ok"
    /\ settings.enable_catalog
    /\ runNo = 1
    /\ queue = <<>>
    /\ runNo' = 2
    /\ mainPc' = "idle"
    /\ run' = NoRun
    /\ wk' = <<>>
    /\ poolFull' = FALSE
    /\ heavyCount' = HeavyCapacity
    /\ processed' = <<>>
    /\ completed_count' = 0
    /\ cbLog' = <<>>
    /\ warnings' = {}
    /\ result' = NoResult
    /\ UNCHANGED <<libVars, catVars, regVars, output, settings, input_paths, staging,
                   stagingExists, queue>>

Next ==
    \/ Begin
    \/ \E i \in Items : WorkerRun(i)
    \/ \E i \in Items : WorkerBegin(i)
    \/ \E i \in Items : Acquire(i)
    \/ \E i \in Items : SpuriousWake(i)
    \/ \E i \in Items : Process(i)
    \/ \E i \in Items : FetchAdd(i)
    \/ \E i \in Items : Send(i)
    \/ ProgressRecv
    \/ PoolDone
    \/ JoinProgress
    \/ WriteMetadataJson
    \/ CreateMiscArc
    \/ WriteManifest
    \/ WriteHashes
    \/ SealContainer
    \/ UpdateCatalog
    \/ UpdateRegistry
    \/ ReturnOk
    \/ Rerun

Spec == Init /\ [][Next]_vars

\* Fair scheduling of the pool's threads: a worker that can take the lock in
\* acquire() eventually takes it, and a worker that holds a permit goes on to
\* the end of its closure, where the guard is dropped
HeavyFairness ==
    \A i \in 1..MaxHeavy :
        /\ WF_vars(i \in Items /\ Acquire(i))
        /\ WF_vars(i \in Items /\ Process(i))
        /\ WF_vars(i \in Items /\ FetchAdd(i))
        /\ WF_vars(i \in Items /\ Send(i))

SpecFair == Init /\ [][Next]_vars /\ HeavyFairness

-----------------------------------------------------------------------------
(* The libraries on their own: nothing of the orchestrator is running *)

Dormant ==
    /\ windows = FALSE
    /\ disk = [k \in Universe |-> [exists |-> TRUE, size |-> FileSize(k), mtime |-> 0]]
    /\ now = 0
    /\ table = {}
    /\ lastCall = [op |-> "none", arg |-> None, ret |-> None]
    /\ archives = {}
    /\ archive_files = {}
    /\ output = NoOutput
    /\ settings = [enable_catalog |-> TRUE, enable_dedup |-> TRUE,
                   skip_already_compressed_videos |-> TRUE]
    /\ input_paths = <<>>
    /\ runNo = 1
    /\ mainPc = "idle"
    /\ run = NoRun
    /\ wk = <<>>
    /\ poolFull = FALSE
    /\ heavyCount = HeavyCapacity
    /\ staging = {}
    /\ stagingExists = FALSE
    /\ processed = <<>>
    /\ completed_count = 0
    /\ queue = <<>>
    /\ cbLog = <<>>
    /\ warnings = {}
    /\ result = NoResult

-----------------------------------------------------------------------------
(* encode_varint followed by decode_varint of exactly the bytes it produced *)

VintInit ==
    /\ Dormant
    /\ hfile = [pc |-> "idle"]
    /\ extr = [pc |-> "idle"]
    /\ cblock = [pc |-> "idle"]
    /\ gate = [pc |-> "idle"]
    /\ img = [pc |-> "idle"]
    /\ arc = ArcIdle
    /\ probe = ProbeIdle
    /\ video = [pc |-> "idle"]
    /\ \E v \in VarintInputs :
          vint = [pc |-> "input", value |-> v, bytes |-> <<>>, ret |-> VarintErr]

\* let encoded = encode_varint(value);
VintEncode ==
    /\ vint.pc = "input"
    /\ vint' = [vint EXCEPT !.pc = "encoded", !.bytes = encode_varint(vint.value)]
    /\ UNCHANGED <<catVars, regVars, runVars, arc, probe, video, img, gate, cblock, extr, hfile>>

\* decode_varint(&encoded)
VintDecode ==
    /\ vint.pc = "encoded"
    /\ vint' = [vint EXCEPT !.pc = "decoded", !.ret = decode_varint(vint.bytes)]
    /\ UNCHANGED <<catVars, regVars, runVars, arc, probe, video, img, gate, cblock, extr, hfile>>

\* the bytes that follow the packed integer in the stream
VarintTails == {<<>>, <<7>>, <<1, 2, 3, 4, 5, 6, 7, 8, 9>>}

\* utils::read_varint on a reader over the encoded bytes followed by a tail
VintRead ==
    /\ vint.pc = "encoded"
    /\ \E t \in VarintTails :
          vint' = [vint EXCEPT !.pc = "read"] @@
                  [tail |-> t, rd |-> read_varint(vint.bytes \o t, 1)]
    /\ UNCHANGED <<catVars, regVars, runVars, arc, probe, video, img, gate, cblock, extr, hfile>>

VintNext ==
    \/ VintEncode
    \/ VintDecode
    \/ VintRead

SpecVarint == VintInit /\ [][VintNext]_vars

-----------------------------------------------------------------------------
(* A FreeARC archive written with FreeArcWriter into a Cursor and read back *)
(* with FreeArcReader, as tests/freearc_integration_test.rs does            *)

ArcNames == {<<97>>, <<98>>}

ArcData == {<<>>, <<72, 105>>, ARC_SIGNATURE}

ArcInputs == SeqsOf({[name |-> n, data |-> d] : n \in ArcNames, d \in ArcData},
                    0, MaxArcFiles)

\* the output sizes the codec may return for this archive's blocks
Grows(options) ==
    IF StartsWithLzma(options.compression) THEN 0..MaxLzmaGrowth ELSE {0}

ArcInit ==
    /\ Dormant
    /\ hfile = [pc |-> "idle"]
    /\ extr = [pc |-> "idle"]
    /\ cblock = [pc |-> "idle"]
    /\ gate = [pc |-> "idle"]
    /\ img = [pc |-> "idle"]
    /\ vint = VintIdle
    /\ probe = ProbeIdle
    /\ video = [pc |-> "idle"]
    /\ \E o \in ArcOptions, fs \in ArcInputs :
          arc = [ArcIdle EXCEPT !.pc = "start", !.options = o, !.todo = fs]

\* let mut writer = FreeArcWriter::new(archive_buffer, options)?;
ArcNew ==
    /\ arc.pc = "start"
    /\ arc' = [arc EXCEPT !.pc = "adding", !.w = FreeArcWriter_new(arc.options)]
    /\ UNCHANGED <<catVars, regVars, runVars, vint, probe, video, img, gate, cblock, extr, hfile>>

\* writer.add_file(name, content)?;
ArcAddFile ==
    /\ arc.pc = "adding"
    /\ arc.todo # <<>>
    /\ \E grow \in Grows(arc.options) :
          arc' = [arc EXCEPT
                    !.w = add_file(arc.w, Head(arc.todo).name, Head(arc.todo).data, grow),
                    !.todo = Tail(@),
                    !.added = Append(@, Head(arc.todo))]
    /\ UNCHANGED <<catVars, regVars, runVars, vint, probe, video, img, gate, cblock, extr, hfile>>

\* let cursor = writer.finish()?;
ArcFinish ==
    /\ arc.pc = "adding"
    /\ arc.todo = <<>>
    /\ \E grow_data \in Grows(arc.options), grow_dir \in Grows(arc.options),
          grows \in [1..FooterTries -> Grows(arc.options)] :
          arc' = [arc EXCEPT !.pc = "finished",
                             !.fin = finish(arc.w, grow_data, grow_dir, grows)]
    /\ UNCHANGED <<catVars, regVars, runVars, vint, probe, video, img, gate, cblock, extr, hfile>>

\* let reader = FreeArcReader::new(Cursor::new(archive_data), None)?;
ArcRead ==
    /\ arc.pc = "finished"
    /\ arc' = [arc EXCEPT !.pc = "read", !.reader = FreeArcReader_new(arc.fin.out)]
    /\ UNCHANGED <<catVars, regVars, runVars, vint, probe, video, img, gate, cblock, extr, hfile>>

ArcNext ==
    \/ ArcNew
    \/ ArcAddFile
    \/ ArcFinish
    \/ ArcRead

SpecFreeArc == ArcInit /\ [][ArcNext]_vars

-----------------------------------------------------------------------------
(* safe_analyze_video: each video worker spawns a helper thread for the     *)
(* probe, waits for its message with a timeout, joins it, and decides       *)

MaxProbes == 2       \* video workers probing at the same time

\* rx.recv_timeout(Duration::from_secs(5))
RecvTimeoutSecs == 5

Probers == 1..MaxProbes

\* what catch_unwind(|| analyze_video_compression(..)) can give when the probe
\* returns
ProbeOutcomes == {"Ok(efficient)", "Ok(inefficient)", "Err", "Panic"}

\* the `.ok().and_then(|r| match r { .. })` on the received message
ProbeResult(msg) ==
    CASE msg = "Ok(efficient)" -> "Some(efficient)"
      [] msg = "Ok(inefficient)" -> "Some(inefficient)"
      [] OTHER -> "None"

\* should_skip: .map(|a| a.is_efficiently_compressed).unwrap_or(false)
should_skip(analysis) == analysis = "Some(efficient)"

\* handle.join() returns once the helper thread has ended
JoinReturns(helper) == helper = "exited"

ProbeInit ==
    /\ Dormant
    /\ hfile = [pc |-> "idle"]
    /\ extr = [pc |-> "idle"]
    /\ cblock = [pc |-> "idle"]
    /\ gate = [pc |-> "idle"]
    /\ img = [pc |-> "idle"]
    /\ vint = VintIdle
    /\ arc = ArcIdle
    /\ video = [pc |-> "idle"]
    /\ \E hung \in [Probers -> BOOLEAN] :
          probe = [w \in Probers |->
                     [pc |-> "call", helper |-> "none", elapsed |-> 0,
                      chan |-> "empty", result |-> "None", never_returns |-> hung[w]]]

\* thread::spawn(move || { .. }), and the worker reaches recv_timeout
ProbeSpawn(w) ==
    /\ probe[w].pc = "call"
    /\ probe' = [probe EXCEPT ![w].pc = "recv", ![w].helper = "probing"]
    /\ UNCHANGED <<catVars, regVars, runVars, vint, arc, video, img, gate, cblock, extr, hfile>>

\* helper: analyze_video_compression returns, or panics into catch_unwind
ProbeReturns(w) ==
    /\ probe[w].helper = "probing"
    /\ ~probe[w].never_returns
    /\ \E o \in ProbeOutcomes :
          probe' = [probe EXCEPT ![w].helper = o]
    /\ UNCHANGED <<catVars, regVars, runVars, vint, arc, video, img, gate, cblock, extr, hfile>>

\* helper: let _ = tx.send(..), and the thread ends
ProbeSend(w) ==
    /\ probe[w].helper \in ProbeOutcomes
    /\ probe' = [probe EXCEPT ![w].chan = probe[w].helper, ![w].helper = "exited"]
    /\ UNCHANGED <<catVars, regVars, runVars, vint, arc, video, img, gate, cblock, extr, hfile>>

\* a second passes while the worker waits in recv_timeout
ProbeTick(w) ==
    /\ probe[w].pc = "recv"
    /\ probe[w].elapsed < RecvTimeoutSecs
    /\ probe' = [probe EXCEPT ![w].elapsed = @ + 1]
    /\ UNCHANGED <<catVars, regVars, runVars, vint, arc, video, img, gate, cblock, extr, hfile>>

\* worker: recv_timeout returns the message
ProbeRecv(w) ==
    /\ probe[w].pc = "recv"
    /\ probe[w].chan # "empty"
    /\ probe' = [probe EXCEPT ![w].pc = "join", ![w].result = ProbeResult(probe[w].chan)]
    /\ UNCHANGED <<catVars, regVars, runVars, vint, arc, video, img, gate, cblock, extr, hfile>>

\* worker: recv_timeout returns Err(Timeout)
ProbeTimeout(w) ==
    /\ probe[w].pc = "recv"
    /\ probe[w].chan = "empty"
    /\ probe[w].elapsed = RecvTimeoutSecs
    /\ probe' = [probe EXCEPT ![w].pc = "join", ![w].result = "None"]
    /\ UNCHANGED <<catVars, regVars, runVars, vint, arc, video, img, gate, cblock, extr, hfile>>

\* worker: handle.join(), the return of safe_analyze_video, and the choice of
\* the arm: copy the video as it is, or go on to transcode it
ProbeJoin(w) ==
    /\ probe[w].pc = "join"
    /\ JoinReturns(probe[w].helper)
    /\ probe' = [probe EXCEPT
                   ![w].pc = IF should_skip(probe[w].result) THEN "copy" ELSE "transcode"]
    /\ UNCHANGED <<catVars, regVars, runVars, vint, arc, video, img, gate, cblock, extr, hfile>>

ProbeNext ==
    \/ \E w \in Probers : ProbeSpawn(w)
    \/ \E w \in Probers : ProbeReturns(w)
    \/ \E w \in Probers : ProbeSend(w)
    \/ \E w \in Probers : ProbeTick(w)
    \/ \E w \in Probers : ProbeRecv(w)
    \/ \E w \in Probers : ProbeTimeout(w)
    \/ \E w \in Probers : ProbeJoin(w)

\* threads that can take a step take it, and time passes; a probe that is
\* going to return does return
ProbeFairness ==
    \A w \in Probers :
        /\ WF_vars(ProbeSpawn(w))
        /\ WF_vars(ProbeReturns(w))
        /\ WF_vars(ProbeSend(w))
        /\ WF_vars(ProbeTick(w))
        /\ WF_vars(ProbeRecv(w))
        /\ WF_vars(ProbeTimeout(w))
        /\ WF_vars(ProbeJoin(w))

SpecProbe == ProbeInit /\ [][ProbeNext]_vars /\ ProbeFairness

-----------------------------------------------------------------------------
(* codecs/video_analyzer: assess_compression_efficiency.  The f64           *)
(* comparisons are written cross-multiplied over integers: bitrate in whole *)
(* kbps, file size in bytes                                                 *)

\* bpp = bitrate_kbps * 1000 / (pixels * 30) when pixels > 0 and
\* bitrate_kbps > 0, else 0.0; bpp > 0.12
BppAbove012(bitrate_kbps, pixels) ==
    pixels > 0 /\ bitrate_kbps > 0 /\ bitrate_kbps * 2500 > 9 * pixels

\* bpp < 0.10
BppBelow010(bitrate_kbps, pixels) ==
    IF pixels > 0 /\ bitrate_kbps > 0 THEN bitrate_kbps * 1000 < 3 * pixels ELSE TRUE

\* size_mb > 150.0 * resolution_factor, that is
\* file_size / 2^20 > 150 * pixels / (1920 * 1080), or 27 * file_size > 2048 * pixels
SizeAboveLimit(file_size, pixels) ==
    LET q == file_size \div 512
        r == file_size % 512
        d == 4 * pixels - 27 * q
    IN  d < 0 \/ (d < 27 /\ 27 * r > 512 * d)

\* returns the flag and the rule that gave it (the reason string)
assess_compression_efficiency(codec, bitrate_kbps, width, height, file_size) ==
    LET pixels == width * height IN
    IF bitrate_kbps > 12000 THEN [efficient |-> FALSE, rule |-> "bitrate"]
    ELSE IF BppAbove012(bitrate_kbps, pixels) THEN [efficient |-> FALSE, rule |-> "bpp"]
    ELSE IF SizeAboveLimit(file_size, pixels) THEN [efficient |-> FALSE, rule |-> "size"]
    ELSE IF bitrate_kbps < 8000 /\ BppBelow010(bitrate_kbps, pixels)
         THEN [efficient |-> TRUE, rule |-> "moderate"]
    ELSE IF codec = "hevc" /\ bitrate_kbps < 10000 THEN [efficient |-> TRUE, rule |-> "hevc"]
    ELSE [efficient |-> TRUE, rule |-> "default"]

VideoCodecs == {"h264", "hevc"}
VideoBitrates == {0, 2000, 3000, 5000, 7000, 7999, 8000, 9000, 10000, 12000, 12001, 20000}
VideoResolutions == {<<0, 0>>, <<1280, 720>>, <<1920, 1080>>, <<3840, 2160>>}
VideoSizes == {0, 30000000, 50000000, 157286400, 157286401, 200000000}

VideoInit ==
    /\ Dormant
    /\ hfile = [pc |-> "idle"]
    /\ extr = [pc |-> "idle"]
    /\ cblock = [pc |-> "idle"]
    /\ gate = [pc |-> "idle"]
    /\ img = [pc |-> "idle"]
    /\ vint = VintIdle
    /\ arc = ArcIdle
    /\ probe = ProbeIdle
    /\ \E c \in VideoCodecs, b \in VideoBitrates, res \in VideoResolutions, s \in VideoSizes :
          video = [pc |-> "probed", codec |-> c, bitrate_kbps |-> b,
                   width |-> res[1], height |-> res[2], file_size |-> s]

\* analyze_video_compression from the probe's numbers on
VideoAssess ==
    /\ video.pc = "probed"
    /\ LET a == assess_compression_efficiency(video.codec, video.bitrate_kbps,
                                              video.width, video.height, video.file_size)
       IN  video' = [video EXCEPT !.pc = "assessed"] @@
                    [is_efficiently_compressed |-> a.efficient, compression_reason |-> a.rule]
    /\ UNCHANGED <<catVars, regVars, runVars, vint, arc, probe, img, gate, cblock, extr, hfile>>

VideoNext == VideoAssess

SpecVideo == VideoInit /\ [][VideoNext]_vars

-----------------------------------------------------------------------------
(* create_archive: the image arm of one work item, from the load of the     *)
(* image to the return of the closure                                       *)

MaxImageIdx == 1     \* the largest item.idx of the image

ImageExts == JpegExts \cup PngExts \cup HeicExts \cup RawExts \cup TiffExts
                 \cup BmpExts \cup WebPExts

\* an image work item d1/a.<ext> in slot idx
ImageItem(ext, idx) ==
    LET p == <<"d", "1", "/", "a", ".">> \o ext
    IN  [idx |-> idx, input |-> p, class |-> "Image",
         original_format |-> classify_file(FALSE, p).original_format]

\* img_result, or the `?` that leaves the closure before it: `heif` is the
\* cargo feature, `libheif` is HeicCodec::is_available(), `decodes` says
\* whether the bytes of the input decode
img_result(original_format, heif, libheif, decodes) ==
    IF original_format = "Heic"
    THEN IF heif
         THEN IF libheif
              THEN IF decodes THEN "Ok" ELSE "Return(Err)"   \* decode_to_png(..)?
              ELSE "Err"                                     \* libheif not found
         ELSE "Err"                                          \* not compiled
    ELSE IF decodes THEN "Ok" ELSE "Err"                     \* image::open(input)

\* ImageMetadata { original_filename, original_format, original_extension, bpg_filename }
ImageMetadataOf(w, item) ==
    LET e == extension(w, item.input) IN
    [original_filename |-> safe_file_name(w, item.input),
     original_format |-> item.original_format,
     original_extension |-> IF e = None THEN <<"u","n","k","n","o","w","n">>
                            ELSE ToLowercase(e),
     bpg_filename |-> file_stem(w, item.input) \o <<"_">> \o ToDecimal(item.idx)
                          \o <<".","b","p","g">>]

\* what the closure leaves behind: its return, the files it wrote into
\* media/, the ProcessedFile and the ImageMetadata it pushed
ArmLeaves(ret, files, pushed, meta) ==
    [ret |-> ret, files |-> files, processed |-> pushed, images |-> meta]

ImageArmInit ==
    /\ Dormant
    /\ hfile = [pc |-> "idle"]
    /\ extr = [pc |-> "idle"]
    /\ cblock = [pc |-> "idle"]
    /\ gate = [pc |-> "idle"]
    /\ vint = VintIdle
    /\ arc = ArcIdle
    /\ probe = ProbeIdle
    /\ video = [pc |-> "idle"]
    /\ \E ext \in ImageExts, idx \in 0..MaxImageIdx,
          heif \in BOOLEAN, libheif \in BOOLEAN, decodes \in BOOLEAN, copy_ok \in BOOLEAN :
          img = [pc |-> "todo", item |-> ImageItem(ext, idx), heif |-> heif,
                 libheif |-> libheif, decodes |-> decodes, copy_ok |-> copy_ok]

\* the FileClass::Image arm for an image under 50 MB
ImageArm ==
    /\ img.pc = "todo"
    /\ LET item == img.item
           r == img_result(item.original_format, img.heif, img.libheif, img.decodes)
           leaves(l) == img' = [img EXCEPT !.pc = "done"] @@ l
       IN  CASE r = "Return(Err)" -> leaves(ArmLeaves("Err", {}, <<>>, <<>>))
             [] r = "Err" ->
                  IF img.copy_ok
                  THEN leaves(ArmLeaves("Ok", {CopyThroughOut(windows, item)},
                                        <<[archived_rel_path |-> CopyThroughOut(windows, item),
                                           skipped_processing |-> TRUE,
                                           original_format |-> item.original_format]>>,
                                        <<>>))
                  ELSE leaves(ArmLeaves("Err", {}, <<>>, <<>>))   \* fs::copy(..)?
             [] OTHER ->
                  \E enc \in {"encoded", "encode_err", "panic"} :
                      IF enc = "encoded"
                      THEN leaves(ArmLeaves("Ok", {ImageOut(windows, item)},
                                        <<[archived_rel_path |-> ImageOut(windows, item),
                                           skipped_processing |-> FALSE,
                                           original_format |-> item.original_format]>>,
                                        <<ImageMetadataOf(windows, item)>>))
                      ELSE leaves(ArmLeaves(IF enc = "panic" THEN "panic" ELSE "Err",
                                            {}, <<>>, <<>>))
    /\ UNCHANGED <<catVars, regVars, runVars, vint, arc, probe, video, gate, cblock, extr, hfile>>

ImageArmNext == ImageArm

SpecImageArm == ImageArmInit /\ [][ImageArmNext]_vars

-----------------------------------------------------------------------------
(* The memory gates a work item passes before its codec starts: the one at  *)
(* the head of the worker closure, and the one in front of the video encoder *)

\* check_memory_usage() * 100: used / total memory, in whole percent
MemoryPercents == 0..100

GateClasses == {"Image", "Video", "Misc"}

\* the closure's gate: the milliseconds slept (the 90% branch comes after the
\* 85% test, as in the source)
task_gate_sleep_ms(memory_usage) ==
    IF memory_usage > 85 THEN 100
    ELSE IF memory_usage > 90 THEN 500
    ELSE 0

\* encode_video_with_memory_constraints, up to the start of the encoder
encode_video_with_memory_constraints(memory_usage) ==
    IF memory_usage > 95 THEN [refused |-> TRUE, sleep_ms |-> 0]
    ELSE IF memory_usage > 90 THEN [refused |-> FALSE, sleep_ms |-> 1000]
    ELSE IF memory_usage > 85 THEN [refused |-> FALSE, sleep_ms |-> 500]
    ELSE [refused |-> FALSE, sleep_ms |-> 0]

MemoryGateInit ==
    /\ Dormant
    /\ hfile = [pc |-> "idle"]
    /\ extr = [pc |-> "idle"]
    /\ cblock = [pc |-> "idle"]
    /\ vint = VintIdle
    /\ arc = ArcIdle
    /\ probe = ProbeIdle
    /\ video = [pc |-> "idle"]
    /\ img = [pc |-> "idle"]
    /\ \E c \in GateClasses, u \in MemoryPercents :
          gate = [pc |-> "todo", class |-> c, memory_usage |-> u,
                  slept_ms |-> 0, refused |-> FALSE]

\* the head of the closure: check_memory_usage() and the sleeps
GateTask ==
    /\ gate.pc = "todo"
    /\ gate' = [gate EXCEPT !.pc = "arm",
                            !.slept_ms = task_gate_sleep_ms(gate.memory_usage)]
    /\ UNCHANGED <<catVars, regVars, runVars, vint, arc, probe, video, img, cblock, extr, hfile>>

\* the arm reaches its codec: an image or a misc file starts; a video to
\* transcode reads the gauge again in encode_video_with_memory_constraints
GateArm ==
    /\ gate.pc = "arm"
    /\ IF gate.class = "Video"
       THEN \E u \in MemoryPercents :
               LET g == encode_video_with_memory_constraints(u)
               IN  gate' = [gate EXCEPT
                              !.pc = IF g.refused THEN "refused" ELSE "started",
                              !.refused = g.refused,
                              !.slept_ms = @ + g.sleep_ms] @@ [second_reading |-> u]
       ELSE gate' = [gate EXCEPT !.pc = "started"]
    /\ UNCHANGED <<catVars, regVars, runVars, vint, arc, probe, video, img, cblock, extr, hfile>>

MemoryGateNext ==
    \/ GateTask
    \/ GateArm

SpecMemoryGate == MemoryGateInit /\ [][MemoryGateNext]_vars

-----------------------------------------------------------------------------
(* One control block and its descriptor in a file, a byte of the file       *)
(* changed, and the block read back                                         *)

\* decompress_data(method, data, orig_size, None) for a stored block
decompress_data(method, data) ==
    IF method = S_storing \/ method = <<>> THEN RdOk(data, 0) ELSE RdErr

\* read_control_block(reader, desc, None): desc.pos counts from 0
read_control_block(buf, desc) ==
    IF desc.pos = NoPos THEN RdErr
    ELSE IF desc.pos + desc.comp_size > Len(buf) THEN RdErr
    ELSE decompress_data(desc.compressor,
                         SubSeq(buf, desc.pos + 1, desc.pos + desc.comp_size))

\* the payloads of the block
BlockPayloads == {<<>>, <<72, 105>>, <<1, 2, 3>>}

\* what follows the descriptor in the file
BlockPads == {<<>>, <<0, 0, 0, 0, 0, 0, 0, 0, 0, 0, 0, 0>>}

\* the descriptor FreeArcWriter::finish makes for a stored block at position 0
StoredDescriptor(block_type, payload) ==
    [block_type |-> block_type, compressor |-> S_storing,
     orig_size |-> Len(payload), comp_size |-> Len(payload),
     crc |-> crc32fast_hash(payload), pos |-> 0]

\* one bit of byte k changed
FlipByte(buf, k) ==
    [buf EXCEPT ![k] = IF buf[k] % 2 = 0 THEN buf[k] + 1 ELSE buf[k] - 1]

BlockInit ==
    /\ Dormant
    /\ hfile = [pc |-> "idle"]
    /\ extr = [pc |-> "idle"]
    /\ vint = VintIdle
    /\ arc = ArcIdle
    /\ probe = ProbeIdle
    /\ video = [pc |-> "idle"]
    /\ img = [pc |-> "idle"]
    /\ gate = [pc |-> "idle"]
    /\ \E t \in {BlockType_Directory, BlockType_Footer}, payload \in BlockPayloads,
          pad \in BlockPads :
          LET d == StoredDescriptor(t, payload) IN
          cblock = [pc |-> "written", desc |-> d,
                 buf |-> payload \o BlockDescriptor_write(d) \o pad,
                 flipped |-> 0]

\* the file is damaged: one bit of one byte changes
BlockCorrupt ==
    /\ cblock.pc = "written"
    /\ \E k \in 1..Len(cblock.buf) :
          cblock' = [cblock EXCEPT !.pc = "damaged", !.buf = FlipByte(cblock.buf, k),
                             !.flipped = k]
    /\ UNCHANGED <<catVars, regVars, runVars, vint, arc, probe, video, img, gate, extr, hfile>>

\* BlockDescriptor::read at the descriptor's position, and read_control_block
\* with the descriptor the footer gives for the block
BlockRead ==
    /\ cblock.pc \in {"written", "damaged"}
    /\ cblock' = [cblock EXCEPT !.pc = "read"] @@
              [rd_desc |-> BlockDescriptor_read(cblock.buf, cblock.desc.comp_size + 1),
               rd_data |-> read_control_block(cblock.buf, cblock.desc)]
    /\ UNCHANGED <<catVars, regVars, runVars, vint, arc, probe, video, img, gate, extr, hfile>>

BlockNext ==
    \/ BlockCorrupt
    \/ BlockRead

SpecBlockCrc == BlockInit /\ [][BlockNext]_vars

(* extract_archive_with_decoding with decode_images = true: the images of   *)
(* OPENARC_METADATA.json decoded in media/ after the archive is unpacked    *)

MaxExtractImages == 2     \* image records in OPENARC_METADATA.json

\* the originals the records were made of
ExtractInputs ==
    {P_d1_a_jpg, P_d2_a_jpg, <<"d","1","/","a",".","p","n","g">>,
     <<"d","1","/","a",".","b","m","p">>, <<"d","1","/","b",".","h","e","i","c">>}

\* the records create_archive pushed for the originals, each with the idx of
\* its work item
RecordsOf(inputs) ==
    [k \in 1..Len(inputs) |->
        ImageMetadataOf(FALSE, [idx |-> k - 1, input |-> inputs[k], class |-> "Image",
                                original_format |->
                                    classify_file(FALSE, inputs[k]).original_format])]

\* OriginalImageFormat::extraction_extension
extraction_extension(original_format) ==
    CASE original_format = "Jpeg" -> <<"j","p","g">>
      [] original_format = "Heic" -> <<"h","e","i","c">>
      [] OTHER -> <<"p","n","g">>

\* decode_bpg_to_original: the name, in the directory of the .bpg file, of
\* the file it wrote, when the .bpg file decodes
decode_bpg_to_original(bpg_filename, original_format, heif, libheif, decodes) ==
    LET stem == file_stem(FALSE, bpg_filename)
        named(ext) == [ok |-> TRUE, name |-> stem \o <<".">> \o ext]
    IN  IF ~decodes THEN [ok |-> FALSE, name |-> <<>>]
        ELSE CASE original_format = "Jpeg" -> named(<<"j","p","g">>)
               [] original_format = "Heic" /\ heif /\ libheif -> named(<<"h","e","i","c">>)
               [] OTHER -> named(<<"p","n","g">>)

\* a directory after fs::remove_file(name)
RemoveFile(dir, name) == {f \in dir : f.name # name}

\* a directory after a file of the given name and content is written, or
\* renamed onto that name: the file that had the name is replaced
PutFile(dir, name, content) == RemoveFile(dir, name) \cup {[name |-> name, of |-> content]}

\* the loop over meta.images, from record k on: media is media/, finals the
\* final path of each record decoded so far
RECURSIVE DecodeImages(_, _, _, _)
DecodeImages(e, k, media, finals) ==
    IF k > Len(e.images)
    THEN [media |-> media, finals |-> finals,
          decoded_count |-> Cardinality({i \in 1..Len(finals) : finals[i] # None})]
    ELSE
    LET img_meta == e.images[k]
        r == decode_bpg_to_original(img_meta.bpg_filename, img_meta.original_format,
                                    e.heif, e.libheif, e.decodes[k])
        target_name == file_stem(FALSE, img_meta.original_filename) \o <<".">>
                           \o extraction_extension(img_meta.original_format)
    IN  IF ~\E f \in media : f.name = img_meta.bpg_filename
        THEN DecodeImages(e, k + 1, media, Append(finals, None))        \* continue
        ELSE IF ~r.ok
        THEN DecodeImages(e, k + 1, media, Append(finals, None))        \* warn!
        ELSE DecodeImages(e, k + 1,
                          PutFile(RemoveFile(RemoveFile(media, img_meta.bpg_filename),
                                             r.name),
                                  target_name, k),
                          Append(finals, target_name))

ExtractInit ==
    /\ Dormant
    /\ hfile = [pc |-> "idle"]
    /\ vint = VintIdle
    /\ arc = ArcIdle
    /\ probe = ProbeIdle
    /\ video = [pc |-> "idle"]
    /\ img = [pc |-> "idle"]
    /\ gate = [pc |-> "idle"]
    /\ cblock = [pc |-> "idle"]
    /\ \E inputs \in SeqsOf(ExtractInputs, 1, MaxExtractImages),
          heif \in BOOLEAN, libheif \in BOOLEAN :
          /\ \A i, j \in 1..Len(inputs) : i # j => inputs[i] # inputs[j]
          /\ \E decodes \in [1..Len(inputs) -> BOOLEAN],
                unpacked \in SUBSET (1..Len(inputs)) :
                extr = [pc |-> "unpacked", images |-> RecordsOf(inputs),
                        heif |-> heif, libheif |-> libheif, decodes |-> decodes,
                        media |-> {[name |-> RecordsOf(inputs)[k].bpg_filename, of |-> k] :
                                      k \in unpacked},
                        metadata_json |-> TRUE]

\* extract_archive_with_decoding, after zstd.extract_tar_zst, up to the
\* removal of OPENARC_METADATA.json
ExtractDecode ==
    /\ extr.pc = "unpacked"
    /\ extr' = [extr EXCEPT !.pc = "done", !.metadata_json = FALSE,
                            !.media = DecodeImages(extr, 1, extr.media, <<>>).media]
                 @@ [finals |-> DecodeImages(extr, 1, extr.media, <<>>).finals,
                     decoded_files |->
                         DecodeImages(extr, 1, extr.media, <<>>).decoded_count]
    /\ UNCHANGED <<catVars, regVars, runVars, vint, arc, probe, video, img, gate, cblock, hfile>>

ExtractNext == ExtractDecode

SpecExtract == ExtractInit /\ [][ExtractNext]_vars

-----------------------------------------------------------------------------
(* core/hash.rs: HASHES.sha256 written with write_hashes_file and read back *)
(* with read_hashes_file and verify_dir_against_hashes                      *)

MaxHashLines == 2     \* (hash, relative path) pairs in one file

\* digests in hex, shortened
HashHexes == {<<"a","b">>, <<"c","0">>}

\* relative paths of archive members; one has a space in its name
HashRelPaths == {<<"M">>, <<"m","/","a">>, <<"m","/","a"," ","b">>, <<"m","/","c","\t","d">>}

\* char::is_whitespace, for the characters of the model
IsWhitespace(c) == c \in {" ", "\t", "\n", "\r"}

\* write_hashes_file: writeln!(out, "{}  {}", hash_hex, rel_path) per pair
write_hashes_file(pairs) ==
    Concat([k \in 1..Len(pairs) |-> pairs[k][1] \o <<" ", " ">> \o pairs[k][2] \o <<"\n">>])

\* BufRead::lines: the text between line feeds, a carriage return before the
\* line feed dropped
RECURSIVE BufLines(_)
BufLines(text) ==
    IF text = <<>> THEN <<>>
    ELSE IF "\n" \notin Range(text) THEN <<text>>
    ELSE LET n == CHOOSE i \in 1..Len(text) :
                      text[i] = "\n" /\ \A j \in 1..(i - 1) : text[j] # "\n"
             l == SubSeq(text, 1, n - 1)
         IN  <<IF l # <<>> /\ l[Len(l)] = "\r" THEN SubSeq(l, 1, Len(l) - 1) ELSE l>>
                 \o BufLines(SubSeq(text, n + 1, Len(text)))

\* str::trim
RECURSIVE str_trim(_)
str_trim(text) ==
    IF text = <<>> THEN <<>>
    ELSE IF IsWhitespace(Head(text)) THEN str_trim(Tail(text))
    ELSE IF IsWhitespace(text[Len(text)]) THEN str_trim(SubSeq(text, 1, Len(text) - 1))
    ELSE text

\* str::split_whitespace: the maximal runs of characters that are not
\* whitespace
RECURSIVE split_whitespace(_)
split_whitespace(text) ==
    IF text = <<>> THEN <<>>
    ELSE IF IsWhitespace(Head(text)) THEN split_whitespace(Tail(text))
    ELSE LET n == IF \A i \in 1..Len(text) : ~IsWhitespace(text[i]) THEN Len(text)
                  ELSE (CHOOSE i \in 1..Len(text) :
                            IsWhitespace(text[i])
                            /\ \A j \in 1..(i - 1) : ~IsWhitespace(text[j])) - 1
         IN  <<SubSeq(text, 1, n)>> \o split_whitespace(SubSeq(text, n + 1, Len(text)))

\* read_hashes_file: the loop over the lines, from line k on
RECURSIVE ReadHashLines(_, _, _)
ReadHashLines(lines, k, acc) ==
    IF k > Len(lines) THEN [ok |-> TRUE, val |-> acc]
    ELSE LET trimmed == str_trim(lines[k])
             fields == split_whitespace(trimmed)
         IN  IF trimmed = <<>> THEN ReadHashLines(lines, k + 1, acc)      \* continue
             ELSE IF Len(fields) < 2 THEN [ok |-> FALSE, val |-> <<>>]   \* Invalid hashes line
             ELSE ReadHashLines(lines, k + 1, Append(acc, <<fields[1], fields[2]>>))

read_hashes_file(text) == ReadHashLines(BufLines(text), 1, <<>>)

\* verify_dir_against_hashes: root_dir as the digest of each file in it by
\* its relative path
RECURSIVE VerifyEntries(_, _, _)
VerifyEntries(root_dir, entries, k) ==
    IF k > Len(entries) THEN "Ok"
    ELSE IF entries[k][2] \notin DOMAIN root_dir THEN "Err(open)"     \* sha256_file_hex(&path)?
    ELSE IF root_dir[entries[k][2]] # entries[k][1] THEN "Err(mismatch)"
    ELSE VerifyEntries(root_dir, entries, k + 1)

verify_dir_against_hashes(root_dir, text) ==
    IF ~read_hashes_file(text).ok THEN "Err(read)"
    ELSE VerifyEntries(root_dir, read_hashes_file(text).val, 1)

HashesInit ==
    /\ Dormant
    /\ vint = VintIdle
    /\ arc = ArcIdle
    /\ probe = ProbeIdle
    /\ video = [pc |-> "idle"]
    /\ img = [pc |-> "idle"]
    /\ gate = [pc |-> "idle"]
    /\ cblock = [pc |-> "idle"]
    /\ extr = [pc |-> "idle"]
    /\ \E pairs \in SeqsOf(HashHexes \X HashRelPaths, 0, MaxHashLines) :
          /\ \A i, j \in 1..Len(pairs) : i # j => pairs[i][2] # pairs[j][2]
          /\ hfile = [pc |-> "hashed", pairs |-> pairs,
                      root_dir |-> [r \in {pairs[k][2] : k \in 1..Len(pairs)} |->
                                       pairs[CHOOSE k \in 1..Len(pairs) :
                                                 pairs[k][2] = r][1]]]

\* hash::write_hashes_file(&hashes, hashes_path)?
HashesWrite ==
    /\ hfile.pc = "hashed"
    /\ hfile' = [hfile EXCEPT !.pc = "written"] @@ [text |-> write_hashes_file(hfile.pairs)]
    /\ UNCHANGED <<catVars, regVars, runVars, vint, arc, probe, video, img, gate, cblock, extr>>

\* read_hashes_file(hashes_file)
HashesRead ==
    /\ hfile.pc = "written"
    /\ hfile' = [hfile EXCEPT !.pc = "read"] @@ [rd |-> read_hashes_file(hfile.text)]
    /\ UNCHANGED <<catVars, regVars, runVars, vint, arc, probe, video, img, gate, cblock, extr>>

\* verify_dir_against_hashes(root_dir, hashes_file)
HashesVerify ==
    /\ hfile.pc = "written"
    /\ hfile' = [hfile EXCEPT !.pc = "verified"]
                  @@ [verdict |-> verify_dir_against_hashes(hfile.root_dir, hfile.text)]
    /\ UNCHANGED <<catVars, regVars, runVars, vint, arc, probe, video, img, gate, cblock, extr>>

HashesNext ==
    \/ HashesWrite
    \/ HashesRead
    \/ HashesVerify

SpecHashes == HashesInit /\ [][HashesNext]_vars

-----------------------------------------------------------------------------
-----------------------------------------------------------------------------
(* Properties of the catalog *)

\* the rows stored under the normalised form of path
RowsOf(path) == {r \in table : r.path = normalize_path(windows, path)}

\* the stored row has the size and the whole-second mtime the file has now
RowMatchesDisk(r, path) ==
    /\ r.size = Metadata(windows, disk, path).size
    /\ r.mtime_secs = get_mtime_secs(Metadata(windows, disk, path))

\* C9: whenever should_skip_file(p) answers, it answers Skip (Some(true)) if
\* the row recorded for p carries p's current size and mtime in seconds,
\* ReBackup (Some(false)) if a row is recorded for p and the size or the mtime
\* in seconds has changed since, and NotPresent (None) if no row was ever
\* recorded for p.
C9_SkipCorrectness ==
    (lastCall.op = "should_skip_file" /\ lastCall.ret # "Err") =>
        LET p == lastCall.arg
        IN /\ (RowsOf(p) = {}) => lastCall.ret = "None"
           /\ \A r \in RowsOf(p) :
                /\ RowMatchesDisk(r, p) => lastCall.ret = "Some(true)"
                /\ ~RowMatchesDisk(r, p) => lastCall.ret = "Some(false)"

\* a recorded file was touched (same size, later second) and asked about
C9_Witness ==
    /\ lastCall.op = "should_skip_file"
    /\ lastCall.ret = "Some(false)"
    /\ \E r \in RowsOf(lastCall.arg) :
         /\ r.size = Metadata(windows, disk, lastCall.arg).size
         /\ r.mtime_secs < get_mtime_secs(Metadata(windows, disk, lastCall.arg))

\* C10: after any sequence of record_backup / record_backups calls the table
\* holds at most one row per path, and list_all returns every row exactly
\* once, so no path appears twice in its result.
C10_OneRowPerPath ==
    /\ \A r1, r2 \in table : r1.path = r2.path => r1 = r2
    /\ lastCall.op = "list_all" =>
         /\ Len(lastCall.ret) = Cardinality(table)
         /\ \A i, j \in 1..Len(lastCall.ret) :
              lastCall.ret[i].path = lastCall.ret[j].path => i = j

\* a path that had a row was recorded again and the table has that one row
C10_Witness ==
    /\ lastCall.op = "record_backup"
    /\ lastCall.arg = "replaced"
    /\ Cardinality(table) = 1

\* C11: when the metadata of an input cannot be read, should_skip_file
\* answers Skip (Some(true)) for it, and filter_files_to_backup puts it in the
\* skip list and not in the backup list.
C11_IoErrorIsSkip ==
    /\ (lastCall.op = "should_skip_file"
            /\ ~Metadata(windows, disk, lastCall.arg).exists) =>
          lastCall.ret = "Some(true)"
    /\ lastCall.op = "filter_files_to_backup" =>
          \A k \in 1..Len(lastCall.arg) :
             ~Metadata(windows, disk, lastCall.arg[k]).exists =>
                /\ lastCall.arg[k] \in Range(lastCall.ret.skip)
                /\ lastCall.arg[k] \notin Range(lastCall.ret.backup)

-----------------------------------------------------------------------------
(* Properties of create_archive *)

\* the completed_count values the progress thread has passed to the callback,
\* in invocation order (the "Preparing..." call of the main thread left out)
ProgressCounts ==
    LET calls == SelectSeq(cbLog, LAMBDA c : c.count # 0)
    IN [k \in 1..Len(calls) |-> calls[k].count]

\* C1: the completed_count values passed to the callback are strictly
\* increasing in invocation order, and when the run has returned Ok they are
\* exactly 1, 2, .., total_tasks.
C1_ProgressMonotonic ==
    /\ \A k \in 1..(Len(ProgressCounts) - 1) : ProgressCounts[k] < ProgressCounts[k + 1]
    /\ (mainPc = "returned" /\ result.kind = "Ok") =>
          ProgressCounts = [k \in 1..Len(run.work) |-> k]

\* the permits handed out and not yet given back
Outstanding == Cardinality({i \in DOMAIN wk : wk[i].holds})

\* C2: at every moment at most HeavyCapacity (2) permits are outstanding and
\* the limiter's count is the capacity less the outstanding permits; a worker
\* that has ended its item (done, Err, panic) holds no permit; once the
\* workers have joined no permit is outstanding.
C2_HeavyPermits ==
    /\ Outstanding <= HeavyCapacity
    /\ heavyCount = HeavyCapacity - Outstanding
    /\ \A i \in DOMAIN wk : wk[i].pc \in Terminal => ~wk[i].holds
    /\ mainPc \notin {"idle", "pool"} => Outstanding = 0

\* both permits are out and a third worker waits for one
C2_Witness ==
    /\ Outstanding = HeavyCapacity
    /\ \E i \in DOMAIN wk : wk[i].pc = "waiting"

\* C3: when the second run on the same inputs, with the catalog enabled and
\* nothing changed on disk, returns Ok, it reports every discovered file as
\* skipped by the catalog and nothing as processed, and it has written an
\* archive.
C3_SecondRunSkipsAll ==
    (runNo = 2 /\ mainPc = "returned" /\ result.kind = "Ok" /\ input_paths # <<>>) =>
        /\ result.skipped_by_catalog = result.discovered_files
        /\ result.processed = <<>>
        /\ output.run = 2

\* C4: with enable_dedup, no two work items carry files of the same content,
\* and the work item of a content is its first occurrence among the files to
\* process.
C4_OneWorkItemPerHash ==
    (settings.enable_dedup /\ mainPc # "idle") =>
        /\ \A i, j \in Items :
             sha256_file_hex(windows, run.work[i].input)
                = sha256_file_hex(windows, run.work[j].input) => i = j
        /\ \A i \in Items : \A k \in 1..Len(run.to_process) :
             sha256_file_hex(windows, run.to_process[k])
                = sha256_file_hex(windows, run.work[i].input)
             => \E m \in 1..k : run.to_process[m] = run.work[i].input

\* C5: when the codec has failed for an item, the call does not return an
\* error: it returns Ok.
C5_EncodeFailureTolerated ==
    (/\ mainPc = "returned"
     /\ (\E i \in DOMAIN wk : wk[i].pc = "encode_err")
     /\ (\A i \in DOMAIN wk : wk[i].pc # "panicked")) =>
        result.kind = "Ok"

\* C6: once the container of this run is sealed, the call does not return an
\* error.
C6_PostSealNeverErr ==
    (mainPc = "returned" /\ output.run = runNo) => result.kind = "Ok"

\* C7: no staging path is written by two work items.
C7_StagingPathsDistinct ==
    \A f, g \in staging : f.path = g.path => f.by = g.by

\* C8: MANIFEST.txt exists only when every worker has ended its item;
\* HASHES.sha256 exists only when MANIFEST.txt exists and, if a misc file was
\* processed, misc.arc exists; the container of this run is written only with
\* HASHES.sha256 in it.
C8_SealOrder ==
    /\ S_manifest \in StagingPaths => \A i \in DOMAIN wk : wk[i].pc \in Terminal
    /\ S_hashes \in StagingPaths =>
          /\ S_manifest \in StagingPaths
          /\ HasMisc => S_misc_arc \in StagingPaths
    /\ output.run = runNo => S_hashes \in output.members

\* a run with a misc file has written the container
C8_Witness ==
    /\ output.run = runNo
    /\ HasMisc
    /\ S_misc_arc \in output.members
    /\ Len(run.work) = MaxFiles

\* C12: every committed state of the registry has, for each archives row, as
\* many archive_files rows referencing it as its file_count says.
C12_FileCountMatchesRows ==
    \A a \in archives :
        Cardinality({f \in archive_files : f.archive_id = a.id}) = a.file_count


-----------------------------------------------------------------------------
(* Properties of the packed integers *)

\* C13: for every u64 v, decode_varint(encode_varint(v)) is Ok((v, n)) with n
\* the length of encode_varint(v), and that length is the smallest width of
\* the format's table that can hold v.
C13_VarintRoundTrip ==
    /\ vint.pc \in {"encoded", "decoded"} =>
          /\ Len(vint.bytes) \in 1..9
          /\ WidthHolds(Len(vint.bytes), vint.value)
          /\ \A m \in 1..(Len(vint.bytes) - 1) : ~WidthHolds(m, vint.value)
    /\ vint.pc = "decoded" =>
          /\ vint.ret.ok
          /\ vint.ret.value = vint.value
          /\ vint.ret.consumed = Len(vint.bytes)

C13_Witness ==
    /\ vint.pc = "decoded"
    /\ Len(vint.bytes) = 5
    /\ vint.ret = VarintOk(vint.value, 5)

-----------------------------------------------------------------------------
(* Properties of the FreeARC archive *)

\* C14: for every sequence of files written with FreeArcWriter (add_file for
\* each, then finish), FreeArcReader::new on the produced bytes succeeds; the
\* listing and the extracted bytes the claim goes on to compare exist only
\* when it does.
C14_FreeArcRoundTrip ==
    arc.pc = "read" => arc.reader.ok

\* the descriptor of a Footer block ends the output: signature, block type
\* and its own CRC-32 over everything before it
EndsWithFooterDescriptor(out) ==
    \E p \in 1..(Len(out) - 8) :
        /\ SubSeq(out, p, p + 4) = ARC_SIGNATURE \o write_varint(BlockType_Footer)
        /\ SubSeq(out, Len(out) - 3, Len(out))
             = u32_to_le_bytes(crc32fast_hash(SubSeq(out, p, Len(out) - 4)))

\* C15: whenever finish returns Ok, the footer payload and the footer
\* descriptor have been written and the footer descriptor is the last thing
\* in the output.
C15_FinishWritesFooter ==
    (arc.pc \in {"finished", "read"} /\ arc.fin.ok) =>
        /\ arc.fin.footer_written
        /\ EndsWithFooterDescriptor(arc.fin.out)

-----------------------------------------------------------------------------
(* Properties of the staged artefacts *)

\* C16: for every processed file with a non-empty archived_rel_path, exactly
\* one line of MANIFEST.txt has that path as its second field.  (processed
\* does not change once the workers have joined, so the lines of the file
\* in the staging directory are write_manifest of the current processed.)
C16_OneManifestLinePerPath ==
    S_manifest \in StagingPaths =>
        LET lines == write_manifest(processed)
        IN  \A k \in 1..Len(processed) :
               processed[k].archived_rel_path # <<>> =>
                  Cardinality({l \in 1..Len(lines) :
                                 lines[l].archived_rel_path
                                    = processed[k].archived_rel_path}) = 1

\* a member of the staging tree under misc/ (the directory itself included),
\* or misc.arc
IsMiscMember(p) ==
    \/ p = S_misc_arc
    \/ Len(p) >= Len(S_misc) /\ SubSeq(p, 1, Len(S_misc)) = S_misc

\* C17: if no work item of the run is classified as Misc, the staging tree
\* and the container written by the run have no misc/ member and no misc.arc.
C17_NoMiscNoMiscMembers ==
    (run # NoRun /\ \A i \in Items : run.work[i].class # "Misc") =>
        /\ \A p \in StagingPaths : ~IsMiscMember(p)
        /\ output.run = runNo => \A p \in output.members : ~IsMiscMember(p)

\* a run of MaxFiles work items, none of them Misc, has written its container
C17_Witness ==
    /\ run # NoRun
    /\ Len(run.work) = MaxFiles
    /\ \A i \in Items : run.work[i].class # "Misc"
    /\ output.run = runNo
    /\ S_media \in output.members

\* C18: after create_archive has returned, with Ok or with any error, the
\* staging directory it created no longer exists.
C18_StagingGoneAfterReturn ==
    mainPc = "returned" => ~stagingExists /\ staging = {}

\* create_archive has returned the error of the seal, which it met with the
\* staging directory full
C18_Witness ==
    /\ mainPc = "returned"
    /\ result.kind = "Err"
    /\ result.at = "seal"
    /\ Len(processed) = MaxFiles
    /\ ~stagingExists

-----------------------------------------------------------------------------
(* Properties of the video probe *)

\* C19: a video probe that never returns cannot block the pipeline: the
\* worker that called safe_analyze_video goes on to transcode the video.
C19_HungProbeDoesNotBlock ==
    \A w \in Probers :
        [](probe[w].never_returns => <>(probe[w].pc = "transcode"))

-----------------------------------------------------------------------------
(* Properties of the efficiency classifier *)

\* C20: a video is flagged efficiently compressed if and only if at least one
\* of these holds: bitrate < 8000 kbps and bpp < 0.10; the codec is HEVC and
\* bitrate < 10000 kbps; none of the inefficient predicates fires
\* (bitrate > 12000 kbps, bpp > 0.12, size > 150 MB x pixels / (1920 x 1080)).
C20_EfficientIffAnyOf ==
    video.pc = "assessed" =>
        LET pixels == video.width * video.height IN
        video.is_efficiently_compressed <=>
            \/ video.bitrate_kbps < 8000 /\ BppBelow010(video.bitrate_kbps, pixels)
            \/ video.codec = "hevc" /\ video.bitrate_kbps < 10000
            \/ /\ ~(video.bitrate_kbps > 12000)
               /\ ~BppAbove012(video.bitrate_kbps, pixels)
               /\ ~SizeAboveLimit(video.file_size, pixels)

-----------------------------------------------------------------------------
(* Properties of the returned counts *)

\* the content hashes that two or more of the files to process share
DuplicateGroups ==
    {sha256_file_hex(windows, run.to_process[i]) : i \in
        {i \in 1..Len(run.to_process) :
            \E j \in 1..Len(run.to_process) :
                /\ j # i
                /\ sha256_file_hex(windows, run.to_process[j])
                     = sha256_file_hex(windows, run.to_process[i])}}

\* C21: the dedup_groups value that create_archive returns is the number of
\* duplicate groups (content hashes shared by two or more to-process files),
\* and 0 when enable_dedup is false.
C21_DedupGroupsAreDuplicateGroups ==
    (mainPc = "returned" /\ result.kind = "Ok" /\ result.discovered_files # <<>>) =>
        result.dedup_groups =
            IF settings.enable_dedup THEN Cardinality(DuplicateGroups) ELSE 0

-----------------------------------------------------------------------------
(* Properties of the image arm *)

\* C22: for every image whose decoding fails, whatever its format (HEIC
\* included), the worker copies the original to media/<stem>_<slot>.<ext>,
\* records it with skipped_processing = true, emits no metadata record, and
\* returns Ok so that the run goes on (the copy itself succeeding).
C22_DecodeFailureCopiesThrough ==
    (img.pc = "done" /\ ~img.decodes /\ img.copy_ok) =>
        /\ img.ret = "Ok"
        /\ img.files = {CopyThroughOut(windows, img.item)}
        /\ Len(img.processed) = 1
        /\ img.processed[1].archived_rel_path = CopyThroughOut(windows, img.item)
        /\ img.processed[1].skipped_processing
        /\ img.images = <<>>

-----------------------------------------------------------------------------
(* Properties of the completion events *)

\* the sequence numbers of the WorkDone events sent so far: those the
\* progress thread has received, then those still in the channel
EventSeqs == [k \in 1..Len(ProgressCounts) |-> ProgressCounts[k] - 1] \o queue

\* C23: every work item that completes emits exactly one completion event;
\* the sequence numbers of the events of a run are pairwise distinct, and
\* when no item is between its push and its send they are exactly 0..k-1 for
\* the k completed items, in every interleaving of the workers.
C23_CompletionEventsDistinct ==
    LET done == {i \in DOMAIN wk : wk[i].pc = "done"}
        mid == {i \in DOMAIN wk : wk[i].pc \in {"pushed", "sending"}}
        ev == EventSeqs
    IN  /\ Len(ev) = Cardinality(done)
        /\ \A a, b \in 1..Len(ev) : ev[a] = ev[b] => a = b
        /\ {ev[a] : a \in 1..Len(ev)} = {wk[i].seq : i \in done}
        /\ mid = {} => {ev[a] : a \in 1..Len(ev)} = 0..(Cardinality(done) - 1)

\* two items have completed, the second of the work list first
C23_Witness ==
    /\ Len(wk) = 2
    /\ wk[1].pc = "done" /\ wk[2].pc = "done"
    /\ wk[2].seq = 0 /\ wk[1].seq = 1
    /\ EventSeqs = <<1, 0>>

-----------------------------------------------------------------------------
(* Properties of the stream reader of packed integers *)

\* C24: for every v and every byte string t, read_varint applied to
\* encode_varint(v) followed by t returns v and consumes exactly
\* len(encode_varint(v)) bytes, leaving t unread.
C24_ReadVarintReadsOneEncoding ==
    vint.pc = "read" =>
        /\ vint.rd.ok
        /\ vint.rd.val = vint.value
        /\ vint.rd.pos = Len(vint.bytes) + 1

-----------------------------------------------------------------------------
(* Properties of the memory gates *)

\* C25: before a task starts the gauge decides by the highest threshold it
\* exceeds: above 95% the task is refused, above 90% the worker sleeps 500 ms,
\* above 85% it sleeps 100 ms, otherwise it starts at once; images and videos
\* alike (the gauge reading the same at both gates of a video).
C25_GateByHighestThreshold ==
    (/\ gate.pc \in {"started", "refused"}
     /\ gate.class \in {"Image", "Video"}
     /\ gate.class = "Video" => gate.second_reading = gate.memory_usage) =>
        LET u == gate.memory_usage IN
        /\ gate.refused <=> u > 95
        /\ ~gate.refused =>
              gate.slept_ms = IF u > 90 THEN 500 ELSE IF u > 85 THEN 100 ELSE 0

-----------------------------------------------------------------------------
(* Properties of the CRC checks of the reader *)

\* the descriptor CRC stored in the bytes a descriptor was read from equals
\* the CRC over those bytes from the magic through the data CRC
DescriptorCrcAgrees(buf, first, next) ==
    SubSeq(buf, next - 4, next - 1)
        = u32_to_le_bytes(crc32fast_hash(SubSeq(buf, first, next - 5)))

\* C26: the reader never accepts a block whose CRC-32 disagrees with the
\* stored one: a descriptor whose stored descriptor-CRC differs from the CRC
\* over its bytes is not returned, and block data whose CRC differs from the
\* recorded data CRC is not returned.
C26_CrcMismatchRejected ==
    cblock.pc = "read" =>
        /\ cblock.rd_desc.ok =>
              DescriptorCrcAgrees(cblock.buf, cblock.desc.comp_size + 1, cblock.rd_desc.pos)
        /\ cblock.rd_data.ok => crc32fast_hash(cblock.rd_data.val) = cblock.desc.crc


-----------------------------------------------------------------------------
(* The directory block and the add_file calls                               *)

\* the sum of the per-block file counts of a directory block
RECURSIVE NumFilesSum(_)
NumFilesSum(data_blocks) ==
    IF data_blocks = <<>> THEN 0
    ELSE Head(data_blocks).num_files + NumFilesSum(Tail(data_blocks))

\* the (name, size) pairs of a sequence of file entries or of add_file calls
ListedFiles(files) == [k \in 1..Len(files) |-> <<files[k].name, files[k].size>>]

AddedFiles(calls) == [k \in 1..Len(calls) |-> <<calls[k].name, Len(calls[k].data)>>]

\* C27: every file passed to add_file, zero-length files included, is listed
\* in the directory block that finish writes: one file entry per call, in call
\* order, and the per-block file counts sum to the number of calls.
C27_EveryAddedFileListed ==
    (arc.pc \in {"finished", "read"} /\ arc.fin.ok) =>
        /\ ListedFiles(arc.fin.dir_block.files) = AddedFiles(arc.added)
        /\ NumFilesSum(arc.fin.dir_block.data_blocks) = Len(arc.added)


-----------------------------------------------------------------------------
(* The final paths of decoded images                                        *)

\* C28: after extract_archive_with_decoding with decode_images = true, no two
\* distinct image records that were decoded resolve to the same final output
\* path.
C28_FinalPathsDistinct ==
    extr.pc = "done" =>
        \A i, j \in 1..Len(extr.finals) :
            (i # j /\ extr.finals[i] # None /\ extr.finals[j] # None)
                => extr.finals[i] # extr.finals[j]


-----------------------------------------------------------------------------
(* Liveness of the heavy limiter                                            *)

-----------------------------------------------------------------------------
(* HASHES.sha256 read back                                                  *)

\* C30: read_hashes_file of what write_hashes_file wrote returns the same
\* (hash, relative path) pairs, names with whitespace included, and
\* verify_dir_against_hashes succeeds on the directory the hashes were taken
\* of.
C30_HashesRoundTrip ==
    /\ hfile.pc = "read" => (hfile.rd.ok /\ hfile.rd.val = hfile.pairs)
    /\ hfile.pc = "verified" => hfile.verdict = "Ok"
=========================================================================
